---------------------------- MODULE Spec2Model ----------------------------
(***************************************************************************)
(* Model of pywhispercpp's transcription worker (examples/gui.py):        *)
(* PyWhisperCppWorker, a threading.Thread that loads the model, runs      *)
(* transcribe with a segment and a progress callback and reports through  *)
(* Qt signals, and TranscriptionApp, the widget whose slots receive those  *)
(* signals through the GUI thread's event queue.                          *)
(*                                                                         *)
(* The worker emits from a thread other than the receiver's, so every     *)
(* connection is a queued one: an emission appends a call event to the    *)
(* GUI thread's queue and the GUI thread runs the slot later, in order.   *)
(* User actions (select a file, Transcribe, Stop) are steps of the GUI    *)
(* thread too, enabled when the button they belong to can be clicked.     *)
(***************************************************************************)
EXTENDS Integers, Sequences, FiniteSets, TLC

\* ------------------------------------------------------------------ bounds
\* Runs the user may start (one worker object per Transcribe click).
MaxRuns == 2
\* Callback invocations (segment or progress) one transcribe call may make.
MaxCalls == 2
\* stop() calls the recorded history holds.
MaxStops == 2


\* Percent values the external model may pass to progress_callback: the ends of
\* the documented range 0..100 and one above it.
ProgressInputs == {0, 100, 150}

VARIABLES
    pc,           \* pc[w]: position of worker w's thread in run()
    is_running,   \* is_running[w]: PyWhisperCppWorker._is_running
    exc,          \* exc[w]: message of the exception run() is handling
    ncalls,       \* ncalls[w]: callbacks transcribe has made so far
    nseg,         \* nseg[w]: segments transcribe has passed on so far
    queue,        \* the GUI thread's queue of pending slot calls
    app,          \* the TranscriptionApp fields and widget properties
    audit,        \* which calls of the worker's methods the history records
    termLog,      \* history: the result/error/finished signals w emitted
    slotLog,      \* history: the result/error/finished slots run for w
    uncaught,     \* history: an exception left w's run() uncaught
    stopCalls,    \* history: stopCalls[w], number of stop() calls on worker w
    stopEarly,    \* history: stop() was called before w's thread ran a step
    stopLate,     \* history: stop() was called after w's run() had ended
    startRejected, \* history: a second start() on a worker raised RuntimeError
    disk,         \* the files written so far: absolute path -> characters
    ret,          \* the last call of a helper of utils.py or of an export
    fd,           \* the process's descriptor table: descriptor -> open file
    streams,      \* the Python stream objects: fileno() and closed
    sys_stderr,   \* the stream sys.stderr is bound to
    blocks        \* the with redirect_stderr(...) blocks entered so far

worker == <<pc, is_running, exc, ncalls, nseg>>
hist == <<audit, termLog, slotLog, uncaught, stopCalls, stopEarly, stopLate,
          startRejected>>
files == <<disk, ret>>
process == <<fd, streams, sys_stderr, blocks>>
vars == <<pc, is_running, exc, ncalls, nseg, queue, app, audit, termLog,
          slotLog, uncaught, stopCalls, stopEarly, stopLate, startRejected,
          disk, ret, fd, streams, sys_stderr, blocks>>

\* The worker objects of a specification: one per run the user may start,
\* and one run more where runs overlap (SpecOverlap).
WorkerIds(recorded) ==
    1..(IF recorded = "overlap" THEN MaxRuns + 1 ELSE MaxRuns)

WorkersTwo == WorkerIds("none")
WorkersThree == WorkerIds("overlap")
Workers == IF audit = "overlap" THEN WorkersThree ELSE WorkersTwo

\* ------------------------------------------------------------ status text
\* A status bar text: `pre` is its leading literal (what startswith() tests
\* look at), `rest` the formatted tail.
Status(pre, rest) == [pre |-> pre, rest |-> rest]

startswith(s, prefix) == s.pre = prefix

\* f"Error: {str(e)}" / f"Error: {value}"
ErrorText(msg) == Status("Error:", msg)

\* f"Progress: {value}%"
ProgressText(value) == Status("Progress:", ToString(value) \o "%")

\* ---------------------------------------------------------------- signals
\* Variant: the error signal connected to the clean-up slot.
SlotOfErrorToFinished(sig) ==
    CASE sig = "result"        -> "on_transcription_result"
      [] sig = "segment"       -> "on_new_segment"
      [] sig = "finished"      -> "on_transcription_finished"
      [] sig = "error"         -> "on_transcription_finished"
      [] sig = "progress"      -> "update_progress"
      [] sig = "status_update" -> "update_status"

\* The connections start_transcription makes before starting the thread.
SlotOf(sig) ==
    CASE sig = "result"        -> "on_transcription_result"
      [] sig = "segment"       -> "on_new_segment"
      [] sig = "finished"      -> "on_transcription_finished"
      [] sig = "error"         -> "on_transcription_error"
      [] sig = "progress"      -> "update_progress"
      [] sig = "status_update" -> "update_status"

\* The message of RuntimeError("Transcription manually stopped").
StopMessage == "Transcription manually stopped"

\* The signals that end a run: its outcome, and the finished marker.
Closing == {"result", "error", "finished"}

\* What the history keeps of a closing signal: its name, and for an error
\* the message it carries.
Mark(name, sig, arg) == <<name, IF sig = "error" THEN arg ELSE "">>

\* signal.emit(arg) from worker w's thread: a queued call of the connected
\* slot is appended to the GUI thread's queue.
Post(q, w, sig, arg) == Append(q, <<w, sig, arg>>)

Emit(w, sig, arg) ==
    /\ queue' = Post(queue, w, sig, arg)
    /\ termLog' = IF sig \in Closing
                  THEN [termLog EXCEPT ![w] = Append(@, Mark(sig, sig, arg))]
                  ELSE termLog

\* Taking the next queued call off the GUI thread's queue: oldest first.
Dequeue(q) == [ev |-> Head(q), rest |-> Tail(q)]

\* A Segment object: the k-th segment the model produced in worker w's run.
Segment(w, k) == <<w, k>>

\* What transcribe returns on normal completion: every segment, in order.
SegmentList(w, n) == [k \in 1..n |-> Segment(w, k)]

\* ------------------------------------------------------ TranscriptionApp
\* TranscriptionApp.__init__ / init_ui: the fields and widget properties
\* the handlers below read or write.
InitApp ==
    [ selected_file_path |-> FALSE,     \* None
      whisper_thread     |-> 0,         \* None
      transcribe_visible |-> TRUE,
      transcribe_enabled |-> FALSE,
      stop_visible       |-> FALSE,
      select_enabled     |-> TRUE,
      progress_visible   |-> FALSE,
      progress_value     |-> -1,        \* a fresh QProgressBar has no value
      results_table      |-> <<>>,
      export_enabled     |-> FALSE,
      copy_enabled       |-> FALSE,
      status             |-> Status("Ready.", ""),
      segments           |-> <<>> ]      \* []

update_status(a, status_text) == [a EXCEPT !.status = status_text]

update_progress(a, value) ==
    LET a1 == [a EXCEPT !.progress_value = value]
    IN  IF /\ ~startswith(a1.status, "Error:")
           /\ ~startswith(a1.status, "Finished.")
           /\ ~startswith(a1.status, "Text exported")
           /\ ~startswith(a1.status, "Text copied")
        THEN update_status(a1, ProgressText(value))
        ELSE a1

\* Variant: the new row inserted at the top of the table.
on_new_segment_first(a, segment) ==
    [a EXCEPT !.results_table = <<segment>> \o @]

on_new_segment(a, segment) ==
    [a EXCEPT !.results_table = Append(@, segment)]

on_transcription_result(a, segments) ==
    [a EXCEPT !.segments       = segments,
              !.export_enabled = (segments # <<>>),
              !.copy_enabled   = (segments # <<>>)]

\* Variant: a clean-up that leaves the Stop button in place.
on_transcription_finished_stop_left(a) ==
    LET a1 == [a EXCEPT !.transcribe_visible = TRUE,
                        !.transcribe_enabled = TRUE,
                        !.select_enabled     = TRUE,
                        !.progress_visible   = FALSE]
        a2 == IF Len(a1.results_table) = 0
              THEN update_status(a1, Status("Finished.", " No transcription data."))
              ELSE update_status(a1, Status("Transcription finished successfully!", ""))
    IN  [a2 EXCEPT !.whisper_thread = 0]

on_transcription_finished(a) ==
    LET a1 == [a EXCEPT !.transcribe_visible = TRUE,
                        !.transcribe_enabled = TRUE,
                        !.stop_visible       = FALSE,
                        !.select_enabled     = TRUE,
                        !.progress_visible   = FALSE]
        a2 == IF Len(a1.results_table) = 0
              THEN update_status(a1, Status("Finished.", " No transcription data."))
              ELSE update_status(a1, Status("Transcription finished successfully!", ""))
    IN  [a2 EXCEPT !.whisper_thread = 0]

on_transcription_error(a, value) ==
    on_transcription_finished(update_status(a, ErrorText(value)))

\* The slot a queued call runs, by the connection made for its signal.
RunSlot(a, sig, arg) ==
    CASE SlotOf(sig) = "on_transcription_result"   -> on_transcription_result(a, arg)
      [] SlotOf(sig) = "on_new_segment"            -> on_new_segment(a, arg)
      [] SlotOf(sig) = "on_transcription_finished" -> on_transcription_finished(a)
      [] SlotOf(sig) = "on_transcription_error"    -> on_transcription_error(a, arg)
      [] SlotOf(sig) = "update_progress"           -> update_progress(a, arg)
      [] SlotOf(sig) = "update_status"             -> update_status(a, arg)

\* select_file, when the dialog returns a path.
select_file(a) ==
    [a EXCEPT !.selected_file_path = TRUE,
              !.transcribe_enabled = TRUE,
              !.results_table      = <<>>,
              !.export_enabled     = FALSE,
              !.copy_enabled       = FALSE,
              !.status             = Status("File selected: ", "")]

\* start_transcription up to the creation of the worker: the widget changes.
start_transcription_ui(a, w) ==
    [a EXCEPT !.transcribe_visible = FALSE,
              !.stop_visible       = TRUE,
              !.select_enabled     = FALSE,
              !.progress_visible   = TRUE,
              !.progress_value     = 0,
              !.results_table      = <<>>,
              !.export_enabled     = FALSE,
              !.copy_enabled       = FALSE,
              !.status             = Status("Starting transcription...", ""),
              !.segments           = <<>>,
              !.whisper_thread     = w]

\* ----------------------------------------------------- PyWhisperCppWorker
\* threading.Thread.start(): a Thread object whose start() has been called
\* cannot be started again (RuntimeError, "threads can only be started once").
started(w) == pc[w] # "none"

\* Variant: start() without the started check.
StartUnchecked(w) ==
    /\ pc' = [pc EXCEPT ![w] = "start"]
    /\ UNCHANGED startRejected

\* worker.start(): begin run() on a new thread, or raise.
Start(w) ==
    IF ~started(w)
    THEN /\ pc' = [pc EXCEPT ![w] = "start"]
         /\ UNCHANGED startRejected
    ELSE /\ startRejected' = TRUE
         /\ UNCHANGED pc

\* The value run() stores in _is_running when it begins.
RunningAtBegin(w) == TRUE

\* Variant: stop() flipping the flag.
stop_toggle(flag) == ~flag

\* The value stop() stores in _is_running.
stop(flag) == FALSE

\* `self._is_running = True`, the first statement of run().
RunBegin(w) ==
    /\ pc[w] = "start"
    /\ is_running' = [is_running EXCEPT ![w] = RunningAtBegin(w)]
    /\ pc' = [pc EXCEPT ![w] = "emit_loading"]
    /\ UNCHANGED <<exc, ncalls, nseg, queue, app, hist>>
    /\ UNCHANGED <<files, process>>

\* What an emitting step of run() leaves alone.
EmitFrame ==
    UNCHANGED <<is_running, ncalls, nseg, app, audit, slotLog, uncaught,
                stopCalls, stopEarly, stopLate, startRejected, files, process>>

\* Variant: the load begun without the status that announces it.
EmitLoadingSkipped(w) ==
    /\ pc[w] = "emit_loading"
    /\ pc' = [pc EXCEPT ![w] = "load"]
    /\ UNCHANGED <<exc, queue, termLog>>
    /\ EmitFrame

\* status_update.emit(f"Loading model: {self.model_name}...")
EmitLoading(w) ==
    /\ pc[w] = "emit_loading"
    /\ Emit(w, "status_update", Status("Loading model: ", "..."))
    /\ pc' = [pc EXCEPT ![w] = "load"]
    /\ UNCHANGED exc
    /\ EmitFrame

\* Variant: a load failure reported as a stop when the worker had been stopped.
LoadModelStopAware(w) ==
    /\ pc[w] = "load"
    /\ \E ok \in BOOLEAN :
         IF ok
         THEN /\ pc' = [pc EXCEPT ![w] = "emit_loaded"]
              /\ UNCHANGED exc
         ELSE /\ pc' = [pc EXCEPT ![w] = "except_status"]
              /\ exc' = [exc EXCEPT ![w] = IF is_running[w]
                                           THEN "model load failed"
                                           ELSE StopMessage]
    /\ UNCHANGED <<is_running, ncalls, nseg, queue, app, hist>>
    /\ UNCHANGED <<files, process>>

\* model = Model(self.model_name, **model_init_params): returns or raises.
LoadModel(w) ==
    /\ pc[w] = "load"
    /\ \E ok \in BOOLEAN :
         IF ok
         THEN /\ pc' = [pc EXCEPT ![w] = "emit_loaded"]
              /\ UNCHANGED exc
         ELSE /\ pc' = [pc EXCEPT ![w] = "except_status"]
              /\ exc' = [exc EXCEPT ![w] = "model load failed"]
    /\ UNCHANGED <<is_running, ncalls, nseg, queue, app, hist>>
    /\ UNCHANGED <<files, process>>

\* Variant: the emit waiting until the GUI thread has emptied its queue.
EmitLoadedBlocking(w) ==
    /\ pc[w] = "emit_loaded"
    /\ queue = <<>>
    /\ Emit(w, "status_update", Status("Model loaded. Starting transcription...", ""))
    /\ pc' = [pc EXCEPT ![w] = "transcribe"]
    /\ UNCHANGED exc
    /\ EmitFrame

\* status_update.emit("Model loaded. Starting transcription...")
EmitLoaded(w) ==
    /\ pc[w] = "emit_loaded"
    /\ Emit(w, "status_update", Status("Model loaded. Starting transcription...", ""))
    /\ pc' = [pc EXCEPT ![w] = "transcribe"]
    /\ UNCHANGED exc
    /\ EmitFrame

\* Variant: a callback that never looks at the flag.
StopNeverObserved(w) == FALSE

\* Whether new_segment_callback raises: `if not self._is_running`.
StopObserved(w) == ~is_running[w]

\* transcribe calls new_segment_callback(segment) for the next segment: the
\* callback raises RuntimeError when the worker was stopped, and the
\* exception leaves transcribe; otherwise it emits the segment.
new_segment_callback(w) ==
    /\ pc[w] = "transcribe"
    /\ ncalls[w] < MaxCalls
    /\ IF StopObserved(w)
       THEN /\ exc' = [exc EXCEPT ![w] = StopMessage]
            /\ pc' = [pc EXCEPT ![w] = "except_status"]
            /\ ncalls' = [ncalls EXCEPT ![w] = 0]
            /\ UNCHANGED <<nseg, queue, termLog>>
       ELSE /\ Emit(w, "segment", Segment(w, nseg[w] + 1))
            /\ ncalls' = [ncalls EXCEPT ![w] = @ + 1]
            /\ nseg' = [nseg EXCEPT ![w] = @ + 1]
            /\ UNCHANGED <<pc, exc>>
    /\ UNCHANGED <<is_running, app, audit, slotLog, uncaught, stopCalls,
                   stopEarly, stopLate, startRejected>>
    /\ UNCHANGED <<files, process>>

\* The value the progress lambda emits for the value the model reports.
ProgressValue(progress) == progress

\* transcribe calls progress_callback(progress).
progress_callback(w) ==
    /\ pc[w] = "transcribe"
    /\ ncalls[w] < MaxCalls
    /\ ncalls' = [ncalls EXCEPT ![w] = @ + 1]
    /\ \E progress \in ProgressInputs :
         Emit(w, "progress", ProgressValue(progress))
    /\ UNCHANGED <<pc, is_running, exc, nseg, app, audit, slotLog, uncaught,
                   stopCalls, stopEarly, stopLate, startRejected>>
    /\ UNCHANGED <<files, process>>

\* Variant: transcribe giving up at its end when the worker was stopped.
TranscribeReturnStopAware(w) ==
    /\ pc[w] = "transcribe"
    /\ IF is_running[w]
       THEN /\ pc' = [pc EXCEPT ![w] = "emit_complete"]
            /\ UNCHANGED exc
       ELSE /\ pc' = [pc EXCEPT ![w] = "except_status"]
            /\ exc' = [exc EXCEPT ![w] = StopMessage]
    /\ ncalls' = [ncalls EXCEPT ![w] = 0]
    /\ UNCHANGED <<is_running, nseg, queue, app, hist>>
    /\ UNCHANGED <<files, process>>

\* model.transcribe(...) returns the list of segments.
TranscribeReturn(w) ==
    /\ pc[w] = "transcribe"
    /\ pc' = [pc EXCEPT ![w] = "emit_complete"]
    /\ ncalls' = [ncalls EXCEPT ![w] = 0]
    /\ UNCHANGED <<is_running, exc, nseg, queue, app, hist>>
    /\ UNCHANGED <<files, process>>

\* model.transcribe(...) raises for a reason of its own.
TranscribeRaise(w) ==
    /\ pc[w] = "transcribe"
    /\ exc' = [exc EXCEPT ![w] = "transcribe failed"]
    /\ pc' = [pc EXCEPT ![w] = "except_status"]
    /\ ncalls' = [ncalls EXCEPT ![w] = 0]
    /\ UNCHANGED <<is_running, nseg, queue, app, hist>>
    /\ UNCHANGED <<files, process>>

\* status_update.emit("Transcription complete!")
EmitComplete(w) ==
    /\ pc[w] = "emit_complete"
    /\ Emit(w, "status_update", Status("Transcription complete!", ""))
    /\ pc' = [pc EXCEPT ![w] = "emit_result"]
    /\ UNCHANGED exc
    /\ EmitFrame

\* result.emit(segments)
EmitResult(w) ==
    /\ pc[w] = "emit_result"
    /\ Emit(w, "result", SegmentList(w, nseg[w]))
    /\ pc' = [pc EXCEPT ![w] = "finally"]
    /\ UNCHANGED exc
    /\ EmitFrame

\* except Exception as e: status_update.emit(f"Error: {str(e)}")
ExceptStatus(w) ==
    /\ pc[w] = "except_status"
    /\ Emit(w, "status_update", ErrorText(exc[w]))
    /\ pc' = [pc EXCEPT ![w] = "except_error"]
    /\ UNCHANGED exc
    /\ EmitFrame

\* Variant: an except clause that only updates the status text.
ExceptErrorSwallowed(w) ==
    /\ pc[w] = "except_error"
    /\ pc' = [pc EXCEPT ![w] = "finally"]
    /\ UNCHANGED <<is_running, exc, ncalls, nseg, queue, app, hist>>
    /\ UNCHANGED <<files, process>>

\* error.emit((type(e), e, str(e)))
ExceptError(w) ==
    /\ pc[w] = "except_error"
    /\ Emit(w, "error", exc[w])
    /\ pc' = [pc EXCEPT ![w] = "finally"]
    /\ UNCHANGED exc
    /\ EmitFrame

\* The statements of the try body and of the except clause that emit.
TryEmits == {"emit_loading", "emit_loaded", "emit_complete", "emit_result"}
ExceptEmits == {"except_status", "except_error"}

\* Variant: finished emitted after the except clause instead of in a finally
\* clause, so an exception raised in the except clause skips it.
AfterRaiseNoFinally(at) == IF at \in TryEmits THEN "except_status" ELSE "done"

\* Where control goes when the statement at `at` raises: a statement of the
\* try body enters the except clause, a statement of the except clause
\* leaves run() through the finally clause.
AfterRaise(at) == IF at \in TryEmits THEN "except_status" ELSE "finally"

\* An emit of run() raises instead of emitting.
EmitRaises(w) ==
    /\ pc[w] \in TryEmits \cup ExceptEmits
    /\ pc' = [pc EXCEPT ![w] = AfterRaise(pc[w])]
    /\ exc' = [exc EXCEPT ![w] = "emit failed"]
    /\ uncaught' = [uncaught EXCEPT ![w] = @ \/ pc[w] \in ExceptEmits]
    /\ UNCHANGED <<is_running, ncalls, nseg, queue, app, audit, termLog,
                   slotLog, stopCalls, stopEarly, stopLate, startRejected>>
    /\ UNCHANGED <<files, process>>

\* Variant: a status update emitted after finished.
FinallyThenStatus(w) ==
    /\ pc[w] = "finally"
    /\ is_running' = [is_running EXCEPT ![w] = FALSE]
    /\ queue' = Post(Post(queue, w, "finished", ""), w, "status_update",
                      Status("Ready.", ""))
    /\ termLog' = [termLog EXCEPT ![w] = Append(@, Mark("finished", "finished", ""))]
    /\ pc' = [pc EXCEPT ![w] = "done"]
    /\ exc' = [exc EXCEPT ![w] = ""]
    /\ nseg' = [nseg EXCEPT ![w] = 0]
    /\ UNCHANGED <<ncalls, app, audit, slotLog, uncaught, stopCalls,
                   stopEarly, stopLate, startRejected>>
    /\ UNCHANGED <<files, process>>

\* finally: self._is_running = False; self.signals.finished.emit()
\* run() returns (or the uncaught exception ends the thread).
Finally(w) ==
    /\ pc[w] = "finally"
    /\ is_running' = [is_running EXCEPT ![w] = FALSE]
    /\ Emit(w, "finished", "")
    /\ pc' = [pc EXCEPT ![w] = "done"]
    /\ exc' = [exc EXCEPT ![w] = ""]
    /\ nseg' = [nseg EXCEPT ![w] = 0]
    /\ UNCHANGED <<ncalls, app, audit, slotLog, uncaught, stopCalls,
                   stopEarly, stopLate, startRejected>>
    /\ UNCHANGED <<files, process>>

\* ------------------------------------------------------ GUI thread steps
\* The worker object start_transcription creates: the next unused one.
NewWorker == Cardinality({w \in Workers : started(w)}) + 1

\* The user picks a file in the dialog select_file opens.
SelectFile ==
    /\ app.select_enabled
    /\ app' = select_file(app)
    /\ UNCHANGED <<worker, queue, hist>>
    /\ UNCHANGED <<files, process>>

\* The user clicks Transcribe: start_transcription.
StartTranscription ==
    /\ app.transcribe_visible /\ app.transcribe_enabled
    /\ NewWorker \in Workers
    /\ app.selected_file_path
    /\ app' = start_transcription_ui(app, NewWorker)
    /\ Start(NewWorker)
    /\ UNCHANGED <<is_running, exc, ncalls, nseg, queue, audit, termLog,
                   slotLog, uncaught, stopCalls, stopEarly, stopLate>>
    /\ UNCHANGED <<files, process>>

\* The user clicks Stop: stop_transcription.
\* The stop() calls the history holds, over the workers not yet released.
StopsRecorded ==
    Cardinality({c \in Workers \X (1..MaxStops) : c[2] <= stopCalls[c[1]]})

StopTranscription ==
    /\ app.stop_visible
    /\ app.whisper_thread # 0
    /\ LET w == app.whisper_thread IN
         /\ StopsRecorded < MaxStops
         /\ is_running' = [is_running EXCEPT ![w] = stop(@)]
         /\ IF audit = "stop"
            THEN /\ stopCalls' = [stopCalls EXCEPT ![w] = @ + 1]
                 /\ stopEarly' = [stopEarly EXCEPT ![w] = @ \/ pc[w] = "start"]
                 /\ stopLate' = [stopLate EXCEPT ![w] = @ \/ pc[w] = "done"]
            ELSE UNCHANGED <<stopCalls, stopEarly, stopLate>>
    /\ UNCHANGED <<pc, exc, ncalls, nseg, queue, app, audit, termLog, slotLog,
                   uncaught, startRejected>>
    /\ UNCHANGED <<files, process>>

\* The GUI thread runs the oldest queued slot call.
Deliver ==
    /\ queue # <<>>
    /\ LET d == Dequeue(queue)
           w == d.ev[1]
           sig == d.ev[2]
           arg == d.ev[3]
       IN  /\ queue' = d.rest
           /\ app' = RunSlot(app, sig, arg)
           /\ slotLog' = IF sig \in Closing
                         THEN [slotLog EXCEPT ![w] = Append(@, Mark(SlotOf(sig), sig, arg))]
                         ELSE slotLog
    /\ UNCHANGED <<worker, audit, termLog, uncaught, stopCalls, stopEarly,
                   stopLate, startRejected>>
    /\ UNCHANGED <<files, process>>

\* A caller calls start() again on a worker that was already started.
StartAgain(w) ==
    /\ pc[w] \notin {"none", "released"}
    /\ Start(w)
    /\ UNCHANGED <<is_running, exc, ncalls, nseg, queue, app, audit, termLog,
                   slotLog, uncaught, stopCalls, stopEarly, stopLate>>
    /\ UNCHANGED <<files, process>>

\* A worker whose thread has ended, whose queued calls have all run and which
\* the application no longer references is garbage: nothing of it remains.
Releasable(w) ==
    /\ pc[w] = "done"
    /\ app.whisper_thread # w
    /\ \A i \in 1..Len(queue) : queue[i][1] # w

Release(w) ==
    /\ Releasable(w)
    /\ pc' = [pc EXCEPT ![w] = "released"]
    /\ termLog' = [termLog EXCEPT ![w] = <<>>]
    /\ slotLog' = [slotLog EXCEPT ![w] = <<>>]
    /\ uncaught' = [uncaught EXCEPT ![w] = FALSE]
    /\ stopCalls' = [stopCalls EXCEPT ![w] = 0]
    /\ stopEarly' = [stopEarly EXCEPT ![w] = FALSE]
    /\ stopLate' = [stopLate EXCEPT ![w] = FALSE]
    /\ UNCHANGED <<is_running, exc, ncalls, nseg, queue, app, audit,
                   startRejected>>
    /\ UNCHANGED <<files, process>>

\* The object is released as soon as it is garbage, before any other step.
Collected == \A w \in Workers : ~Releasable(w)

\* ------------------------------------------------------------- utils.py
\* Text is a sequence of characters, each a one-character string.
DigitChars == <<"0", "1", "2", "3", "4", "5", "6", "7", "8", "9">>

Digit(d) == DigitChars[d + 1]

\* str(n) for a non-negative integer.
RECURSIVE Decimal(_)
Decimal(n) ==
    IF n < 10 THEN <<Digit(n)>> ELSE Decimal(n \div 10) \o <<Digit(n % 10)>>

\* Zero fill on the left up to a minimum width; longer text is kept whole.
ZeroPad(chars, width) ==
    IF Len(chars) >= width
    THEN chars
    ELSE [i \in 1..(width - Len(chars)) |-> "0"] \o chars

\* The ',' option of the format specification: the digits in groups of three.
RECURSIVE Grouped(_)
Grouped(n) ==
    IF n < 1000
    THEN Decimal(n)
    ELSE Grouped(n \div 1000) \o <<",">> \o ZeroPad(Decimal(n % 1000), 3)

\* Variant: the format specification without the ',' option.
FormatUngrouped(n, width) == ZeroPad(Decimal(n), width)

\* f"{int(n):0<width>,.0f}" for width 2 and 3: fixed point with no decimals,
\* grouped by thousands, zero filled to a minimum width. (With a width of at
\* most 3 the fill never reaches a group boundary.)
Format(n, width) == ZeroPad(Grouped(n), width)

\* Ticks (centiseconds) in an hour: 1000 * 60 * 60 milliseconds, over 10.
TicksPerHour == 360000

\* to_timestamp(t, separator). Python's integers are unbounded; to keep
\* 1000 hours within 32 bits the first division is made on the tick count:
\* (t * 10) // (1000 * 60 * 60) = t // 360000, and the remainder
\* t * 10 - hr * (1000 * 60 * 60) = (t - hr * 360000) * 10.
to_timestamp(t, separator) ==
    LET hr    == t \div TicksPerHour
        msec1 == (t - hr * TicksPerHour) * 10
        min   == msec1 \div (1000 * 60)
        msec2 == msec1 - min * (1000 * 60)
        sec   == msec2 \div 1000
        msec3 == msec2 - sec * 1000
    IN  Format(hr, 2) \o <<":">> \o Format(min, 2) \o <<":">>
            \o Format(sec, 2) \o <<separator>> \o Format(msec3, 3)

\* The hours the tick counts tried fall in: below and at 100 and 1000.
HourInputs == {0, 1, 99, 100, 999, 1000}

\* Tick counts tried: every combination of the hours above with the first
\* and last minute, four seconds and four hundredths (376 = 3.76 s and
\* 1344 = 13.44 s among them).
TickInputs ==
    {h * TicksPerHour + m * 6000 + sc * 100 + c :
        h \in HourInputs, m \in {0, 59}, sc \in {0, 3, 13, 59},
        c \in {0, 44, 76, 99}}

Separators == {",", "."}

\* A caller calls to_timestamp(t, separator).
ToTimestamp ==
    /\ \E t \in TickInputs, separator \in Separators :
         ret' = [fn |-> "to_timestamp", t |-> t, separator |-> separator,
                 out |-> to_timestamp(t, separator)]
    /\ UNCHANGED <<worker, queue, app, hist, disk, process>>


\* --------------------------------------------------- utils.py: writers
NL == "\n"

\* s.endswith(suffix)
endswith(s, suffix) ==
    /\ Len(s) >= Len(suffix)
    /\ SubSeq(s, Len(s) - Len(suffix) + 1, Len(s)) = suffix

\* The canonical extension of each format.
Extension(format) ==
    CASE format = "txt" -> <<".", "t", "x", "t">>
      [] format = "vtt" -> <<".", "v", "t", "t">>
      [] format = "srt" -> <<".", "s", "r", "t">>
      [] format = "csv" -> <<".", "c", "s", "v">>

\* Variant: the extension appended whether or not the path has it.
ResolveAlways(output_file_path, format) == output_file_path \o Extension(format)

\* if not output_file_path.endswith('.<ext>'): output_file_path += '.<ext>'
Resolve(output_file_path, format) ==
    IF ~endswith(output_file_path, Extension(format))
    THEN output_file_path \o Extension(format)
    ELSE output_file_path

\* The process's working directory.
Cwd == <<"/", "w">>

\* Path(p).absolute(): a relative path is taken from the working directory.
Absolute(path) ==
    IF path # <<>> /\ path[1] = "/" THEN path ELSE Cwd \o <<"/">> \o path

\* The texts put end to end.
RECURSIVE Concat(_)
Concat(chunks) ==
    IF chunks = <<>> THEN <<>> ELSE Head(chunks) \o Concat(Tail(chunks))

\* The file.write calls each writer makes per segment, in order.
txt_row(seg) == <<seg.text, <<NL>>>>

TimeLine(seg, separator) ==
    to_timestamp(seg.t0, separator) \o <<" ", "-", "-", ">", " ">>
        \o to_timestamp(seg.t1, separator) \o <<NL>>

\* Variant: the VTT time line with the start time in both places.
vtt_row_start_twice(seg) ==
    <<TimeLine([seg EXCEPT !.t1 = seg.t0], "."), seg.text \o <<NL, NL>>>>

vtt_row(seg) == <<TimeLine(seg, "."), seg.text \o <<NL, NL>>>>

\* Variant: the SRT index counted from 0.
srt_row_from_zero(seg, i) ==
    <<Decimal(i - 1) \o <<NL>>, TimeLine(seg, ","), seg.text \o <<NL, NL>>>>

srt_row(seg, i) ==
    <<Decimal(i) \o <<NL>>, TimeLine(seg, ","), seg.text \o <<NL, NL>>>>

\* str(10 * t): the decimal digits of t followed by a 0 (so that ten times
\* 1000 hours of ticks stays within 32 bits).
DecimalTimesTen(t) == IF t = 0 THEN <<"0">> ELSE Decimal(t) \o <<"0">>

\* Variant: the CSV times left in ticks.
csv_row_in_ticks(seg) ==
    <<Decimal(seg.t0) \o <<",", " ">> \o Decimal(seg.t1)
          \o <<",", " ", "\"">> \o seg.text \o <<"\"", NL>>>>

csv_row(seg) ==
    <<DecimalTimesTen(seg.t0) \o <<",", " ">> \o DecimalTimesTen(seg.t1)
          \o <<",", " ", "\"">> \o seg.text \o <<"\"", NL>>>>

\* Variant: a VTT file without its header.
vtt_header_missing == <<>>

\* file.write("WEBVTT\n\n")
vtt_header == <<<<"W", "E", "B", "V", "T", "T", NL, NL>>>>

\* All the file.write calls of a writer for a segment list, in order.
Writes(format, segments) ==
    LET n == Len(segments)
        rows == [i \in 1..n |->
                    CASE format = "txt" -> txt_row(segments[i])
                      [] format = "vtt" -> vtt_row(segments[i])
                      [] format = "srt" -> srt_row(segments[i], i)
                      [] format = "csv" -> csv_row(segments[i])]
    IN  (IF format = "vtt" THEN vtt_header ELSE <<>>) \o Concat(rows)

\* Segments per list.
MaxSegs == 2

Hi == <<"h", "i">>

\* Segments tried: the one of the CSV example, and one that starts at 0 and
\* ends at 1000 hours, with the blanks whisper puts around a text and a
\* quote inside it.
SegInputs ==
    { [t0 |-> 100, t1 |-> 200, text |-> Hi],
      [t0 |-> 0, t1 |-> 1000 * TicksPerHour,
       text |-> <<" ", "a", "\"", "b", " ">>] }

SegmentLists ==
    UNION {[1..n -> SegInputs] : n \in 0..MaxSegs}

Formats == {"txt", "vtt", "srt", "csv"}

\* Writes, computed once for every format and every list tried.
WritesTable ==
    {<<format, segments, Writes(format, segments)>> :
        format \in Formats, segments \in SegmentLists}

WritesOf(format, segments) ==
    (CHOOSE row \in WritesTable : row[1] = format /\ row[2] = segments)[3]

\* What a writer call computes: the path it opens and the writes it makes
\* (looked up in WritesOf, which holds Writes for every list tried).
output(format, segments, output_file_path) ==
    [absolute_path |-> Absolute(Resolve(output_file_path, format)),
     writes        |-> WritesOf(format, segments)]

output_txt(segments, output_file_path) == output("txt", segments, output_file_path)
output_vtt(segments, output_file_path) == output("vtt", segments, output_file_path)
output_srt(segments, output_file_path) == output("srt", segments, output_file_path)
output_csv(segments, output_file_path) == output("csv", segments, output_file_path)

\* Variant: the file opened for appending.
WriteFileAppending(d, path, writes, opened, done) ==
    IF opened
    THEN (path :> ((IF path \in DOMAIN d THEN d[path] ELSE <<>>)
                     \o Concat(SubSeq(writes, 1, done)))) @@ d
    ELSE d

\* with open(path, 'w') as file: file.write(...) ... The open either fails,
\* leaving the disk as it is, or truncates the file; then the first `done`
\* writes reach it, all of them unless one raised.
WriteFile(d, path, writes, opened, done) ==
    IF opened
    THEN (path :> Concat(SubSeq(writes, 1, done))) @@ d
    ELSE d

\* Files the disk may hold.
MaxFiles == 1

CanCreate(path) == path \in DOMAIN disk \/ Cardinality(DOMAIN disk) < MaxFiles

\* Destination paths tried: without extension, with each extension, absolute.
PathInputs ==
    { <<"a">>,
      <<"a">> \o Extension("txt"), <<"a">> \o Extension("vtt"),
      <<"a">> \o Extension("srt"), <<"a">> \o Extension("csv"),
      <<"/", "a">> \o Extension("srt") }

\* A caller calls output_<format>(segments, output_file_path): ret records
\* the call and what it returned, or that it raised.
WriterCall(format, call) ==
    \E segments \in SegmentLists, output_file_path \in PathInputs :
        LET o == output(format, segments, output_file_path) IN
        /\ CanCreate(o.absolute_path)
        /\ \E opened \in BOOLEAN, done \in 0..Len(o.writes) :
            LET ok == opened /\ done = Len(o.writes) IN
            /\ opened \/ done = 0
            /\ disk' = WriteFile(disk, o.absolute_path, o.writes, opened, done)
            /\ ret' = [fn |-> call, format |-> format, segments |-> segments,
                       output_file_path |-> output_file_path,
                       existed |-> o.absolute_path \in DOMAIN disk,
                       opened |-> opened, done |-> done, raised |-> ~ok,
                       out |-> IF ok THEN o.absolute_path ELSE <<>>]
            /\ UNCHANGED <<worker, queue, app, hist, process>>

OutputTxt == WriterCall("txt", "output_txt")
OutputVtt == WriterCall("vtt", "output_vtt")
OutputSrt == WriterCall("srt", "output_srt")
OutputCsv == WriterCall("csv", "output_csv")

\* ------------------------------------ TranscriptionApp: export and copy
\* s.strip(): the text without its leading and trailing blanks.
Blank == {" ", NL, "\t"}

RECURSIVE lstrip(_)
lstrip(c) == IF c # <<>> /\ Head(c) \in Blank THEN lstrip(Tail(c)) ELSE c

RECURSIVE rstrip(_)
rstrip(c) ==
    IF c # <<>> /\ c[Len(c)] \in Blank
    THEN rstrip(SubSeq(c, 1, Len(c) - 1))
    ELSE c

strip(c) == rstrip(lstrip(c))

\* "\n".join(texts)
RECURSIVE join(_)
join(texts) ==
    IF texts = <<>> THEN <<>>
    ELSE IF Len(texts) = 1 THEN Head(texts)
    ELSE Head(texts) \o <<NL>> \o join(Tail(texts))

\* all_text: segment.text.strip() of every segment, in order.
all_text(segments) == [i \in DOMAIN segments |-> strip(segments[i].text)]

\* format_type.upper()
upper(format_type) ==
    CASE format_type = "txt" -> "TXT"
      [] format_type = "vtt" -> "VTT"
      [] format_type = "srt" -> "SRT"
      [] format_type = "csv" -> "CSV"

\* The try block of export_transcription: the txt branch opens file_path as
\* the dialog gave it and writes the joined text in one write; the others
\* call the writer of utils.py.
export(format_type, segments, file_path) ==
    CASE format_type = "txt" ->
            [absolute_path |-> file_path,
             writes        |-> <<join(all_text(segments))>>]
      [] format_type = "srt" -> output_srt(segments, file_path)
      [] format_type = "vtt" -> output_vtt(segments, file_path)
      [] format_type = "csv" -> output_csv(segments, file_path)

\* What QFileDialog.getSaveFileName returns: an absolute path, or the empty
\* string when the user cancels.
DialogPaths == {<<>>} \cup {Absolute(path) : path \in PathInputs}

\* The last call was the same export as this one, and it failed.
Retried(format_type, file_path) ==
    /\ ret.fn = "export_transcription"
    /\ ret.raised
    /\ ret.format = format_type
    /\ ret.file_path = file_path

\* The user picks a format in the export menu: export_transcription. The
\* status of a success names the file (os.path.basename(file_path)) and the
\* status of a failure carries the exception's text; the model keeps the
\* leading literal and, for a failure, the format.
ExportTranscription(format_type) ==
    /\ app.export_enabled
    /\ IF app.segments = <<>>
       THEN /\ app' = update_status(app, Status("No transcription data to export.", ""))
            /\ ret' = [fn |-> "export_transcription", format |-> format_type,
                       segments |-> <<>>, file_path |-> <<>>, path |-> <<>>,
                       existed |-> FALSE, opened |-> FALSE, done |-> 0,
                       raised |-> FALSE, again |-> FALSE, out |-> <<>>]
            /\ UNCHANGED disk
       ELSE \E file_path \in DialogPaths :
            IF file_path = <<>>
            THEN /\ app' = update_status(app, Status("Export cancelled.", ""))
                 /\ ret' = [fn |-> "export_transcription", format |-> format_type,
                            segments |-> app.segments, file_path |-> <<>>,
                            path |-> <<>>, existed |-> FALSE, opened |-> FALSE,
                            done |-> 0, raised |-> FALSE, again |-> FALSE,
                            out |-> <<>>]
                 /\ UNCHANGED disk
            ELSE LET o == export(format_type, app.segments, file_path) IN
                 /\ CanCreate(o.absolute_path)
                 /\ \E opened \in BOOLEAN, done \in 0..Len(o.writes) :
                     LET ok == opened /\ done = Len(o.writes) IN
                     /\ opened \/ done = 0
                     /\ disk' = WriteFile(disk, o.absolute_path, o.writes,
                                          opened, done)
                     /\ app' = IF ok
                               THEN update_status(app,
                                        Status("Transcription successfully exported to ", ""))
                               ELSE update_status(app,
                                        Status("Error exporting to ", upper(format_type)))
                     /\ ret' = [fn |-> "export_transcription",
                                format |-> format_type,
                                segments |-> app.segments,
                                file_path |-> file_path,
                                path |-> o.absolute_path,
                                existed |-> o.absolute_path \in DOMAIN disk,
                                opened |-> opened, done |-> done,
                                raised |-> ~ok,
                                again |-> Retried(format_type, file_path),
                                out |-> IF ok THEN o.absolute_path ELSE <<>>]
    /\ UNCHANGED <<worker, queue, hist, process>>

\* The user clicks Copy: copy_all_text_to_clipboard; ret.out is the text put
\* on the clipboard.
CopyAllTextToClipboard ==
    /\ app.copy_enabled
    /\ IF app.segments = <<>>
       THEN /\ app' = update_status(app, Status("No transcription data to copy.", ""))
            /\ ret' = [fn |-> "copy_all_text_to_clipboard", raised |-> FALSE,
                       out |-> <<>>]
       ELSE /\ app' = update_status(app, Status("Text copied", " to clipboard!"))
            /\ ret' = [fn |-> "copy_all_text_to_clipboard", raised |-> FALSE,
                       out |-> join(all_text(app.segments))]
    /\ UNCHANGED <<worker, queue, hist, disk, process>>

\* The application after a run of worker 1 that streamed and returned
\* `segments`: the handlers of the run applied in the order they ran.
RECURSIVE Streamed(_, _)
Streamed(a, segments) ==
    IF segments = <<>> THEN a
    ELSE Streamed(on_new_segment(a, Head(segments)), Tail(segments))

LoadedApp(segments) ==
    LET a0 == start_transcription_ui(select_file(InitApp), 1)
        a1 == Streamed(a0, segments)
        a2 == update_status(a1, Status("Transcription complete!", ""))
        a3 == on_transcription_result(a2, segments)
    IN  on_transcription_finished(a3)

\* ------------------------------------- TranscriptionApp: the table rows
\* format_time(milliseconds): the argument's float arithmetic gives, for the
\* integers a segment carries, the integer fields below; hours are printed
\* with {:02d}, minutes with {:02d}, seconds with {:06.3f}.
format_time(milliseconds) ==
    LET hours   == milliseconds \div 3600000
        minutes == (milliseconds \div 60000) % 60
        seconds == (milliseconds % 60000) \div 1000
        millis  == milliseconds % 1000
    IN  ZeroPad(Decimal(hours), 2) \o <<":">> \o ZeroPad(Decimal(minutes), 2)
            \o <<":">> \o ZeroPad(Decimal(seconds), 2) \o <<".">>
            \o ZeroPad(Decimal(millis), 3)

\* Variant: the ticks converted to milliseconds before they are formatted.
table_time_of_ticks(t) == format_time(10 * t)

\* What on_new_segment passes to format_time for a time of the segment.
table_time(t) == format_time(t)

\* The three items on_new_segment puts in the new row.
table_row(segment) ==
    <<table_time(segment.t0), table_time(segment.t1), strip(segment.text)>>

\* Segment times tried, in ticks: the examples of to_timestamp, and times
\* around a second, a minute and an hour.
TableTicks ==
    {0, 1, 99, 100, 200, 376, 1344, 5999, 6000, 6001, 35999, 359999, 360000,
     360001, 720000}

TableSegments ==
    {[t0 |-> a, t1 |-> b, text |-> Hi] : a \in TableTicks, b \in TableTicks}

\* The segment signal of a run is delivered: on_new_segment builds the row;
\* ret records the segment and the row.
OnNewSegment ==
    \E segment \in TableSegments :
        /\ segment.t0 <= segment.t1
        /\ ret' = [fn |-> "on_new_segment", segment |-> segment,
                   row |-> table_row(segment)]
        /\ UNCHANGED <<worker, queue, app, hist, disk, process>>

\* ------------------------------------------------ utils: redirect_stderr
\* with redirect_stderr(...) blocks the callers enter.
MaxBlocks == 2
\* The highest descriptor the process may hold open.
MaxFd == 5

Descriptors == 0..MaxFd

\* original_fd = None: sys.stderr has no descriptor.
NoFd == 0 - 1

\* An open file, what a descriptor refers to: `by` is the block whose open()
\* made it, 0 for the files the process started with.
File(name, by) == <<name, by>>

\* A stream object, named like an open file. `fileno` tells what its fileno
\* attribute does: "fd" returns `descriptor`, "raises" raises (io.StringIO),
\* "absent" is an object with write() and no fileno attribute.
Stream(fileno, descriptor) ==
    [fileno |-> fileno, descriptor |-> descriptor, closed |-> FALSE]

\* The streams the callers hold when the process starts.
InitStreams ==
    (File("sys.stderr", 0) :> Stream("fd", 2))
    @@ (File("sys.stdout", 0) :> Stream("fd", 1))
    @@ (File("StringIO", 0) :> Stream("raises", 0))
    @@ (File("writer", 0) :> Stream("absent", 0))
    @@ (File("OutStream", 0) :> Stream("absent", 0))

InitProcess ==
    /\ fd = (0 :> File("stdin", 0)) @@ (1 :> File("stdout", 0))
            @@ (2 :> File("stderr", 0))
    /\ streams = InitStreams
    /\ sys_stderr = File("sys.stderr", 0)
    /\ blocks = <<>>

\* The values of `to` tried: the four documented ones (False, None, a path,
\* sys.stdout), two more file-like objects, and one that is none of these.
ToInputs ==
    {"False", "None", "path", "sys.stdout", "StringIO", "writer", "invalid"}

Free(table) == Descriptors \ DOMAIN table

\* The descriptor open() and os.dup() return: the lowest one not in use.
Lowest(table) == CHOOSE n \in Free(table) : \A m \in Free(table) : n <= m

\* os.close(n)
Close(table, n) == [d \in DOMAIN table \ {n} |-> table[d]]

\* os.dup2(from, onto)
Dup2(table, from, onto) ==
    IF onto \in DOMAIN table
    THEN [table EXCEPT ![onto] = table[from]]
    ELSE (onto :> table[from]) @@ table

\* open(name, "w") in block `by`: a new open file on the lowest free
\* descriptor and a stream on it; it raises when no descriptor is free or
\* the file cannot be opened.
Open(name, by, can_open) ==
    IF can_open /\ Free(fd) # {}
    THEN [raised |-> FALSE, stream |-> File(name, by), should_close |-> TRUE,
          fd |-> (Lowest(fd) :> File(name, by)) @@ fd,
          streams |-> (File(name, by) :> Stream("fd", Lowest(fd))) @@ streams]
    ELSE [raised |-> TRUE, stream |-> File(name, by), should_close |-> FALSE,
          fd |-> fd, streams |-> streams]

\* _resolve_target(target): the stream to redirect to and whether the helper
\* opened it.
resolve_target(target, by, can_open) ==
    CASE target = "None" -> Open("devnull", by, TRUE)
      [] target = "path" -> Open("path", by, can_open)
      [] target \in {"sys.stdout", "StringIO", "writer"} ->
            [raised |-> FALSE, stream |-> File(target, 0),
             should_close |-> FALSE, fd |-> fd, streams |-> streams]
      [] OTHER ->
            [raised |-> TRUE, stream |-> File(target, 0),
             should_close |-> FALSE, fd |-> fd, streams |-> streams]

\* try: original_fd = sys.stderr.fileno()
\* except (AttributeError, OSError): original_fd = None
original_fd_of(s) ==
    IF s.fileno = "fd" THEN s.descriptor ELSE NoFd

\* stream.close(): the stream is closed and so is its descriptor.
CloseStream(ss, id) == [ss EXCEPT ![id].closed = TRUE]

CloseStreamFd(table, ss, id) ==
    IF ss[id].fileno = "fd" /\ ss[id].descriptor \in DOMAIN table
    THEN Close(table, ss[id].descriptor)
    ELSE table

\* if should_close: stream.close()
CloseIfOpened(o, id, should_close) ==
    IF should_close
    THEN [o EXCEPT !.fd = CloseStreamFd(o.fd, o.streams, id),
                   !.streams = CloseStream(o.streams, id)]
    ELSE o

\* Variant: the saved duplicate left open.
restore_fd_leaking(o, original_fd, saved_fd, id, should_close) ==
    CloseIfOpened([o EXCEPT !.fd = Dup2(o.fd, saved_fd, original_fd)],
                  id, should_close)

\* finally: os.dup2(saved_fd, original_fd); os.close(saved_fd);
\* if should_close: stream.close()
restore_fd(o, original_fd, saved_fd, id, should_close) ==
    CloseIfOpened(
        [o EXCEPT !.fd = Close(Dup2(o.fd, saved_fd, original_fd), saved_fd)],
        id, should_close)

\* One with-block: its argument, where it is ("body", "exited", or "failed"
\* when the entry raised), the route taken ("none" for to=False, "fd" for
\* the descriptors, "python" for contextlib.redirect_stderr), the locals of
\* redirect_stderr, and the process as it was at entry.
Block(to, at, route, original_fd, saved_fd, r, old) ==
    [to |-> to, pc |-> at, route |-> route, original_fd |-> original_fd,
     saved_fd |-> saved_fd, stream |-> r.stream,
     should_close |-> r.should_close, old |-> old, raised |-> FALSE,
     entry_fd |-> fd, entry_streams |-> streams, entry_stderr |-> sys_stderr]

\* to=False: nothing resolved.
Unresolved ==
    [raised |-> FALSE, stream |-> sys_stderr, should_close |-> FALSE,
     fd |-> fd, streams |-> streams]

\* The code of redirect_stderr up to its yield: what it leaves of the
\* process and the block it is in then.
EnterOutcome(to, can_open) ==
    LET by == Len(blocks) + 1
        original_fd == original_fd_of(streams[sys_stderr])
        r == resolve_target(to, by, can_open)
        none == [fd |-> fd, streams |-> streams, sys_stderr |-> sys_stderr]
    IN
    IF to = "False"
    THEN none @@ [block |-> Block(to, "body", "none", NoFd, NoFd, Unresolved,
                                  sys_stderr)]
    ELSE IF streams[sys_stderr].closed \/ r.raised
    THEN none @@ [block |-> Block(to, "failed", "none", original_fd, NoFd, r,
                                  sys_stderr)]
    ELSE IF original_fd # NoFd /\ r.streams[r.stream].fileno # "absent"
    THEN IF Free(r.fd) = {}
         THEN \* os.dup raises: the stream opened stays open
              [fd |-> r.fd, streams |-> r.streams, sys_stderr |-> sys_stderr,
               block |-> Block(to, "failed", "fd", original_fd, NoFd, r,
                               sys_stderr)]
         ELSE LET saved_fd == Lowest(r.fd)
                  saved == (saved_fd :> r.fd[original_fd]) @@ r.fd
              IN
              IF r.streams[r.stream].fileno = "raises"
                 \/ r.streams[r.stream].closed
              THEN \* stream.fileno() raises: the finally clause runs
                   restore_fd([fd |-> saved, streams |-> r.streams,
                               sys_stderr |-> sys_stderr],
                              original_fd, saved_fd, r.stream, r.should_close)
                   @@ [block |-> Block(to, "failed", "fd", original_fd,
                                       saved_fd, r, sys_stderr)]
              ELSE [fd |-> Dup2(saved, r.streams[r.stream].descriptor,
                                original_fd),
                    streams |-> r.streams, sys_stderr |-> sys_stderr,
                    block |-> Block(to, "body", "fd", original_fd, saved_fd,
                                    r, sys_stderr)]
    ELSE \* with contextlib.redirect_stderr(stream)
         [fd |-> r.fd, streams |-> r.streams, sys_stderr |-> r.stream,
          block |-> Block(to, "body", "python", original_fd, NoFd, r,
                          sys_stderr)]

\* A caller enters `with redirect_stderr(to):`.
Enter ==
    /\ Len(blocks) < MaxBlocks
    /\ \E to \in ToInputs, can_open \in BOOLEAN :
         LET o == EnterOutcome(to, can_open) IN
         /\ can_open \/ to = "path"
         /\ fd' = o.fd
         /\ streams' = o.streams
         /\ sys_stderr' = o.sys_stderr
         /\ blocks' = Append(blocks, o.block)
    /\ UNCHANGED <<worker, queue, app, hist, files>>

\* The innermost block whose body is running, 0 when there is none.
Innermost ==
    IF \E k \in DOMAIN blocks : blocks[k].pc = "body"
    THEN CHOOSE k \in DOMAIN blocks :
             /\ blocks[k].pc = "body"
             /\ \A j \in DOMAIN blocks : blocks[j].pc = "body" => j <= k
    ELSE 0

\* The code of redirect_stderr after its yield, for block b.
ExitOutcome(b) ==
    LET now == [fd |-> fd, streams |-> streams, sys_stderr |-> sys_stderr] IN
    CASE b.route = "none" -> now
      [] b.route = "fd" ->
            restore_fd(now, b.original_fd, b.saved_fd, b.stream, b.should_close)
      [] b.route = "python" ->
            CloseIfOpened([now EXCEPT !.sys_stderr = b.old], b.stream,
                          b.should_close)

\* The body of the innermost block returns or raises.
Exit ==
    /\ Innermost # 0
    /\ \E raised \in BOOLEAN :
         LET o == ExitOutcome(blocks[Innermost]) IN
         /\ fd' = o.fd
         /\ streams' = o.streams
         /\ sys_stderr' = o.sys_stderr
         /\ blocks' = [blocks EXCEPT ![Innermost].pc = "exited",
                                     ![Innermost].raised = raised]
    /\ UNCHANGED <<worker, queue, app, hist, files>>

\* The host binds sys.stderr to a stream of its own that has no descriptor
\* (a notebook kernel).
InstallStderr ==
    /\ blocks = <<>>
    /\ sys_stderr = File("sys.stderr", 0)
    /\ sys_stderr' = File("OutStream", 0)
    /\ UNCHANGED <<worker, queue, app, hist, files, fd, streams, blocks>>

\* ------------------------------------------------- utils: download_model
\* Chunks the server sends for one model file.
MaxChunks == 2

\* constants.AVAILABLE_MODELS, two of its names.
AVAILABLE_MODELS == {"tiny", "base"}

\* constants.MODELS_DIR
MODELS_DIR == "models"

\* Model names tried: the available ones and one that is not.
ModelNames == AVAILABLE_MODELS \cup {"huge"}

\* download_dir: None or a directory of the caller.
DownloadDirs == {"None", "dir"}

\* The chunks resp.iter_content yields for a model: the server's whole file.
Content(model_name) ==
    [i \in 1..MaxChunks |-> <<model_name, i>>]

\* Path(download_dir) / os.path.basename(_get_model_url(model_name))
model_path(model_name, download_dir) ==
    <<IF download_dir = "None" THEN MODELS_DIR ELSE download_dir,
      "/", "ggml-", model_name, ".bin">>

\* What may go wrong in a call: nothing; requests.get raising; open()
\* raising; the chunk loop raising after `after` chunks were written, either
\* an Exception (the connection breaks, the disk is full) or a BaseException
\* that is no Exception (KeyboardInterrupt).
Failures ==
    {[at |-> "none", after |-> 0, error |-> ""],
     [at |-> "get", after |-> 0, error |-> "ConnectionError"],
     [at |-> "open", after |-> 0, error |-> "PermissionError"]}
    \cup [at : {"chunk"}, after : 0..(MaxChunks - 1),
          error : {"ChunkedEncodingError", "KeyboardInterrupt"}]

\* except Exception
IsException(error) == error # "KeyboardInterrupt"

\* os.remove(file_path)
Remove(d, path) == [f \in DOMAIN d \ {path} |-> d[f]]

\* The else branch of download_model: the disk it leaves and the error that
\* leaves the call ("" when it returns).
download(d, path, content, failure) ==
    CASE failure.at = "none" ->
            [disk |-> (path :> content) @@ d, propagated |-> ""]
      [] failure.at = "get" ->
            [disk |-> d, propagated |-> failure.error]
      [] failure.at = "open" ->
            \* except Exception: os.remove(file_path) finds no file
            [disk |-> d, propagated |-> "FileNotFoundError"]
      [] failure.at = "chunk" ->
            IF IsException(failure.error)
            THEN [disk |-> Remove((path :> SubSeq(content, 1, failure.after)) @@ d,
                                  path),
                  propagated |-> failure.error]
            ELSE [disk |-> (path :> SubSeq(content, 1, failure.after)) @@ d,
                  propagated |-> failure.error]

\* A caller calls download_model(model_name, download_dir): ret records the
\* call, what went wrong in it, and what it returned or raised.
DownloadModel ==
    \E model_name \in ModelNames, download_dir \in DownloadDirs,
       failure \in Failures :
        LET path == model_path(model_name, download_dir)
            known == model_name \in AVAILABLE_MODELS
            existed == path \in DOMAIN disk
            o == IF known /\ ~existed
                 THEN download(disk, path, Content(model_name), failure)
                 ELSE [disk |-> disk, propagated |-> ""]
        IN
        /\ (known /\ ~existed) \/ failure.at = "none"
        /\ disk' = o.disk
        /\ ret' = [fn |-> "download_model", model_name |-> model_name,
                   download_dir |-> download_dir, path |-> path,
                   makedirs |-> known, existed |-> existed,
                   requested |-> known /\ ~existed,
                   failure |-> failure, propagated |-> o.propagated,
                   out |-> IF known /\ o.propagated = "" THEN path ELSE <<>>]
        /\ UNCHANGED <<worker, queue, app, hist, process>>

\* ------------------------------------------------------- specification
InitState(recorded) ==
    /\ audit = recorded
    /\ pc = [w \in WorkerIds(recorded) |-> "none"]
    /\ is_running = [w \in Workers |-> FALSE]
    /\ exc = [w \in Workers |-> ""]
    /\ ncalls = [w \in Workers |-> 0]
    /\ nseg = [w \in Workers |-> 0]
    /\ queue = <<>>
    /\ app = InitApp
    /\ termLog = [w \in Workers |-> <<>>]
    /\ slotLog = [w \in Workers |-> <<>>]
    /\ uncaught = [w \in Workers |-> FALSE]
    /\ stopCalls = [w \in Workers |-> 0]
    /\ stopEarly = [w \in Workers |-> FALSE]
    /\ stopLate = [w \in Workers |-> FALSE]
    /\ startRejected = FALSE
    /\ disk = <<>>
    /\ ret = [fn |-> "none"]
    /\ InitProcess

Init == InitState("none")

Next ==
    \/ \E w \in Workers : Release(w)
    \/ Collected /\ SelectFile
    \/ Collected /\ StartTranscription
    \/ Collected /\ StopTranscription
    \/ Collected /\ Deliver
    \/ \E w \in Workers : Collected /\ RunBegin(w)
    \/ \E w \in Workers : Collected /\ EmitLoading(w)
    \/ \E w \in Workers : Collected /\ LoadModel(w)
    \/ \E w \in Workers : Collected /\ EmitLoaded(w)
    \/ \E w \in Workers : Collected /\ new_segment_callback(w)
    \/ \E w \in Workers : Collected /\ progress_callback(w)
    \/ \E w \in Workers : Collected /\ TranscribeReturn(w)
    \/ \E w \in Workers : Collected /\ TranscribeRaise(w)
    \/ \E w \in Workers : Collected /\ EmitComplete(w)
    \/ \E w \in Workers : Collected /\ EmitResult(w)
    \/ \E w \in Workers : Collected /\ ExceptStatus(w)
    \/ \E w \in Workers : Collected /\ ExceptError(w)
    \/ \E w \in Workers : Collected /\ EmitRaises(w)
    \/ \E w \in Workers : Collected /\ Finally(w)

Spec == Init /\ [][Next]_vars

\* The same, with the history of the stop() calls recorded.
InitStop == InitState("stop")

SpecStop == InitStop /\ [][Next]_vars

\* The same, with callers that call start() on a worker already started.
InitApi == InitState("start")

NextApi ==
    \/ Next
    \/ Collected /\ \E w \in Workers : StartAgain(w)

SpecApi == InitApi /\ [][NextApi]_vars

\* The worker's thread is scheduled: a step of run() that can be taken is
\* taken, every call into the model returns or raises, and a worker object
\* that is garbage is released. Nothing is assumed of the GUI thread or of
\* the user, and an emit may raise but need not.
WorkerStep(w) ==
    Collected /\ (\/ RunBegin(w)
                  \/ EmitLoading(w)
                  \/ LoadModel(w)
                  \/ EmitLoaded(w)
                  \/ new_segment_callback(w)
                  \/ progress_callback(w)
                  \/ TranscribeReturn(w)
                  \/ TranscribeRaise(w)
                  \/ EmitComplete(w)
                  \/ EmitResult(w)
                  \/ ExceptStatus(w)
                  \/ ExceptError(w)
                  \/ Finally(w))

SpecLive ==
    /\ Init /\ [][Next]_vars
    /\ \A w \in WorkerIds("none") : WF_vars(WorkerStep(w))
    /\ \A w \in WorkerIds("none") : WF_vars(Release(w))

\* Runs that overlap: the user may start one run more, and the runs are
\* those that report no progress, are not stopped and whose emits and
\* transcribe calls do not raise.
InitOverlap == InitState("overlap")

NextOverlap ==
    \/ \E w \in Workers : Release(w)
    \/ Collected /\ SelectFile
    \/ Collected /\ StartTranscription
    \/ Collected /\ Deliver
    \/ \E w \in Workers : Collected /\ RunBegin(w)
    \/ \E w \in Workers : Collected /\ EmitLoading(w)
    \/ \E w \in Workers : Collected /\ LoadModel(w)
    \/ \E w \in Workers : Collected /\ EmitLoaded(w)
    \/ \E w \in Workers : Collected /\ new_segment_callback(w)
    \/ \E w \in Workers : Collected /\ TranscribeReturn(w)
    \/ \E w \in Workers : Collected /\ EmitComplete(w)
    \/ \E w \in Workers : Collected /\ EmitResult(w)
    \/ \E w \in Workers : Collected /\ ExceptStatus(w)
    \/ \E w \in Workers : Collected /\ ExceptError(w)
    \/ \E w \in Workers : Collected /\ Finally(w)

SpecOverlap == InitOverlap /\ [][NextOverlap]_vars

\* Callers of to_timestamp.
SpecStamp == Init /\ [][ToTimestamp]_vars

\* Callers of the four writers.
NextWriters ==
    \/ OutputTxt
    \/ OutputVtt
    \/ OutputSrt
    \/ OutputCsv

SpecWriters == Init /\ [][NextWriters]_vars

\* Segments shown in the results table.
SpecTable == Init /\ [][OnNewSegment]_vars

\* The application after a completed run, its worker gone, and a user who
\* exports and copies.
InitExport ==
    \E segments \in SegmentLists :
        /\ audit = "none"
        /\ pc = [w \in WorkerIds("none") |-> IF w = 1 THEN "released" ELSE "none"]
        /\ is_running = [w \in Workers |-> FALSE]
        /\ exc = [w \in Workers |-> ""]
        /\ ncalls = [w \in Workers |-> IF w = 1 THEN Len(segments) ELSE 0]
        /\ nseg = [w \in Workers |-> 0]
        /\ queue = <<>>
        /\ app = LoadedApp(segments)
        /\ termLog = [w \in Workers |-> <<>>]
        /\ slotLog = [w \in Workers |-> <<>>]
        /\ uncaught = [w \in Workers |-> FALSE]
        /\ stopCalls = [w \in Workers |-> 0]
        /\ stopEarly = [w \in Workers |-> FALSE]
        /\ stopLate = [w \in Workers |-> FALSE]
        /\ startRejected = FALSE
        /\ disk = <<>>
        /\ ret = [fn |-> "none"]
        /\ InitProcess

NextExport ==
    \/ \E format_type \in Formats : ExportTranscription(format_type)
    \/ CopyAllTextToClipboard

SpecExport == InitExport /\ [][NextExport]_vars

\* Callers of redirect_stderr: blocks entered one after or inside another.
NextStderr ==
    \/ InstallStderr
    \/ Enter
    \/ Exit

SpecStderr == Init /\ [][NextStderr]_vars

\* Callers of download_model, one call after another.
SpecDownload == Init /\ [][DownloadModel]_vars

\* ------------------------------------------------------------ properties
\* The names a history log holds, in order.
Names(log) == [i \in DOMAIN log |-> log[i][1]]

HasName(log, name) == \E i \in DOMAIN log : log[i][1] = name

\* The queued calls that belong to worker w, oldest first.
QueueOf(w) ==
    LET Mine(e) == e[1] = w
    IN  SelectSeq(queue, Mine)

\* The workers whose object exists.
Alive == {w \in Workers : pc[w] \notin {"none", "released"}}

\* C1: if stop() is called right after start(), before the worker's thread
\* has run a step, the run never emits the result signal.
C1_StopAtStartNeverCompletes ==
    \A w \in Alive : stopEarly[w] => ~HasName(termLog[w], "result")

\* C2: on each of the four paths of run() (load fails, transcribe returns,
\* transcribe fails, stop observed) the worker emits exactly one of result
\* and error, and after it exactly one finished.
C2_OneOutcomeThenFinished ==
    \A w \in Alive :
        ~uncaught[w] =>
            /\ pc[w] = "done" =>
                 Names(termLog[w]) \in {<<"result", "finished">>,
                                        <<"error", "finished">>}
            /\ pc[w] # "done" =>
                 Names(termLog[w]) \in {<<>>, <<"result">>, <<"error">>}
            /\ pc[w] = "finally" => Len(termLog[w]) = 1

C2_Witness ==
    \E w \in Alive :
        /\ pc[w] = "done"
        /\ termLog[w] = <<<<"error", StopMessage>>, <<"finished", "">>>>

C4_StopRequestStays ==
    \A w \in Alive : stopCalls[w] > 0 => ~is_running[w]

\* C5: every run emits finished exactly once, whatever path it takes, also
\* when an emit of the try body or of the except clause raises.
C5_FinishedExactlyOnce ==
    \A w \in Alive :
        LET fin == {i \in DOMAIN termLog[w] : termLog[w][i][1] = "finished"}
        IN  /\ pc[w] = "done" => Cardinality(fin) = 1
            /\ pc[w] # "done" => fin = {}

C5_Witness ==
    \E w \in Alive :
        /\ pc[w] = "done"
        /\ uncaught[w]
        /\ termLog[w] = <<<<"finished", "">>>>

\* C6: finished is the last signal a run emits and the last call the consumer
\* runs for it: no call of the run is queued behind it or run after it.
C6_FinishedIsLast ==
    \A w \in Alive :
        LET q == QueueOf(w)
            t == termLog[w]
            d == slotLog[w]
        IN  /\ HasName(t, "finished") =>
                 /\ t[Len(t)][1] = "finished"
                 /\ \A i \in DOMAIN q : q[i][2] = "finished" => i = Len(q)
                 /\ ~HasName(d, "on_transcription_finished") =>
                        (q # <<>> /\ q[Len(q)][2] = "finished")
            /\ HasName(d, "on_transcription_finished") =>
                 /\ d[Len(d)][1] = "on_transcription_finished"
                 /\ q = <<>>

C6_Witness ==
    \E w \in Alive :
        /\ HasName(slotLog[w], "on_transcription_finished")
        /\ HasName(slotLog[w], "on_transcription_result")

\* C7: start() on a worker that was already started does not begin a second
\* execution of run(): a started worker never returns to the start of run().
C7_NoSecondExecution ==
    [][\A w \in Workers :
          (pc[w] \notin {"none", "start"}) => pc'[w] # "start"]_vars

C7_Witness ==
    /\ startRejected
    /\ \E w \in Alive : pc[w] = "transcribe"
    /\ \E w \in Alive : pc[w] = "done"

\* The rows of the results table that came from worker w, top to bottom.
Rows(w) ==
    LET Mine(r) == r[1] = w
    IN  SelectSeq(app.results_table, Mine)

\* The segments of worker w whose on_new_segment call is still queued.
PendingSegments(w) ==
    LET q == QueueOf(w)
        IsSegment(e) == e[2] = "segment"
        segs == SelectSeq(q, IsSegment)
    IN  [i \in DOMAIN segs |-> segs[i][3]]

\* What the slots run for w's closing signals must be, given what w emitted.
ExpectedSlots(w) ==
    [i \in DOMAIN termLog[w] |->
        <<SlotOf(termLog[w][i][1]), termLog[w][i][2]>>]

\* While the application shows worker w's run, the table rows followed by the
\* segments still queued are the segments the callback emitted, in order.
SegmentsInOrder ==
    \A w \in Alive :
        (app.whisper_thread = w /\ pc[w] # "done") =>
            Rows(w) \o PendingSegments(w) = SegmentList(w, nseg[w])

\* The closing slots run so far are the closing signals emitted, in order,
\* and all of them once nothing of the worker is queued.
ClosingInOrder ==
    \A w \in Alive :
        LET want == ExpectedSlots(w)
            d == slotLog[w]
        IN  /\ Len(d) <= Len(want)
            /\ d = SubSeq(want, 1, Len(d))
            /\ QueueOf(w) = <<>> => d = want

\* C8: the slots connected before start() receive every signal of the run
\* once and in the order of emission; the segments reach the table in the
\* order in which the model passed them to the callback.
C8_DeliveredInOrder == SegmentsInOrder /\ ClosingInOrder

C8_Witness ==
    \E w \in Alive :
        /\ app.results_table = SegmentList(w, 2)
        /\ HasName(slotLog[w], "on_transcription_result")

\* C9: every progress value a run emits lies in 0..100, and the values of a
\* run do not decrease.
C9_ProgressInRangeAndMonotone ==
    \A i \in DOMAIN queue :
        queue[i][2] = "progress" =>
            /\ queue[i][3] \in 0..100
            /\ \A j \in DOMAIN queue :
                 (j > i /\ queue[j][1] = queue[i][1] /\ queue[j][2] = "progress")
                     => queue[i][3] <= queue[j][3]

\* C10: a stop() call leaves the flag requested and changes nothing else: it
\* queues no call and touches neither the worker's run nor the application.
\* When the flag was already requested, or the run has ended, it changes
\* nothing at all.
C10_StopIdempotent ==
    [][\A w \in Workers :
          stopCalls'[w] = stopCalls[w] + 1 =>
              /\ ~is_running'[w]
              /\ UNCHANGED <<pc, exc, ncalls, nseg, queue, app, termLog,
                             slotLog, uncaught>>
              /\ (~is_running[w] \/ pc[w] = "done") =>
                     UNCHANGED is_running]_vars

C10_Witness ==
    \E w \in Alive : stopCalls[w] = 2 /\ stopLate[w] /\ pc[w] = "done"

\* The message of the exception a failing Model(...) call raised.
LoadFailure == "model load failed"

\* Worker w has queued or shown no segment and no progress value.
NothingStreamed(w) ==
    /\ \A i \in DOMAIN queue :
         queue[i][1] = w => queue[i][2] \notin {"segment", "progress"}
    /\ Rows(w) = <<>>
    /\ nseg[w] = 0

\* What holds of a run up to its load step and after the load failed.
LoadFailureReported ==
    \A w \in Alive :
        /\ pc[w] \in {"start", "emit_loading", "load"} =>
               NothingStreamed(w) /\ termLog[w] = <<>>
        /\ (pc[w] \in ExceptEmits /\ exc[w] = LoadFailure) =>
               NothingStreamed(w) /\ termLog[w] = <<>>
        /\ (pc[w] = "finally" /\ exc[w] = LoadFailure) =>
               NothingStreamed(w) /\ termLog[w] = <<<<"error", LoadFailure>>>>
        /\ (pc[w] = "done" /\ termLog[w][1] = <<"error", LoadFailure>>) =>
               /\ NothingStreamed(w)
               /\ termLog[w] = <<<<"error", LoadFailure>>, <<"finished", "">>>>
               /\ QueueOf(w) = <<>> =>
                      slotLog[w] = <<<<"on_transcription_error", LoadFailure>>,
                                     <<"on_transcription_finished", "">>>>

\* The load step either succeeds or enters the except clause with the load
\* failure as the exception, whatever the cancellation flag reads.
LoadFailureStep ==
    \A w \in Workers :
        (pc[w] = "load" /\ pc'[w] \notin {"load", "emit_loaded"}) =>
            (pc'[w] = "except_status" /\ exc'[w] = LoadFailure)

\* C11: a run whose model load fails ends with the error signal carrying the
\* load failure, then finished; it is never reported with the stop message,
\* also when stop() was called before or during the load, and it emits no
\* segment and no progress value: none before the load, none after it failed.
C11_LoadFailureIsFailed == []LoadFailureReported /\ [][LoadFailureStep]_vars

C11_Witness ==
    \E w \in Alive :
        /\ pc[w] = "finally"
        /\ exc[w] = LoadFailure
        /\ ~is_running[w]

\* The stamp the specification describes for tick count t: with ms = 10 * t,
\* HH = ms div 3600000, MM = (ms mod 3600000) div 60000,
\* SS = (ms mod 60000) div 1000 and mmm = ms mod 1000, each in decimal, zero
\* filled to 2, 2, 2 and 3 digits. (Taken on t itself: ms div 3600000 is
\* t div 360000, ms mod 3600000 is 10 * (t mod 360000), and so on.)
StampOfFields(t, separator) ==
    LET HH  == t \div 360000
        MM  == (t % 360000) \div 6000
        SS  == (t % 6000) \div 100
        mmm == (t % 100) * 10
    IN  ZeroPad(Decimal(HH), 2) \o <<":">> \o ZeroPad(Decimal(MM), 2)
            \o <<":">> \o ZeroPad(Decimal(SS), 2) \o <<separator>>
            \o ZeroPad(Decimal(mmm), 3)

StampExamples ==
    /\ to_timestamp(0, ",") = <<"0", "0", ":", "0", "0", ":", "0", "0", ",", "0", "0", "0">>
    /\ to_timestamp(0, ".") = <<"0", "0", ":", "0", "0", ":", "0", "0", ".", "0", "0", "0">>
    /\ to_timestamp(376, ",") = <<"0", "0", ":", "0", "0", ":", "0", "3", ",", "7", "6", "0">>
    /\ to_timestamp(1344, ",") = <<"0", "0", ":", "0", "0", ":", "1", "3", ",", "4", "4", "0">>

\* C12: for every tick count t >= 0 and separator, to_timestamp(t, sep) is
\* HH:MM:SS<sep>mmm with the fields of 10 * t milliseconds, zero filled;
\* 0 gives 00:00:00,000 and 00:00:00.000, 376 gives 00:00:03,760 and 1344
\* gives 00:00:13,440.
C12_StampIsFieldsOfTicks ==
    /\ StampExamples
    /\ ret.fn = "to_timestamp" => ret.out = StampOfFields(ret.t, ret.separator)

\* The same for the tick counts below 1000 hours.
StampIsFieldsBelowThousandHours ==
    (ret.fn = "to_timestamp" /\ ret.t < 1000 * TicksPerHour) =>
        ret.out = StampOfFields(ret.t, ret.separator)

DigitSet == {DigitChars[i] : i \in DOMAIN DigitChars}

\* C13: to_timestamp returns a fixed-width string for every tick count
\* t >= 0: 12 characters, digits everywhere but for ':' in the third and
\* sixth place and the separator in the ninth, so an hours field of exactly
\* two digits with no grouping character, also at 100 and at 1000 hours.
C13_StampIsFixedWidth ==
    ret.fn = "to_timestamp" =>
        /\ Len(ret.out) = 12
        /\ \A i \in DOMAIN ret.out :
             CASE i \in {3, 6} -> ret.out[i] = ":"
               [] i = 9 -> ret.out[i] = ret.separator
               [] OTHER -> ret.out[i] \in DigitSet

\* ------------------------------------------------- properties of writers
\* The newline-terminated lines of a text, without their newlines.
RECURSIVE Lines(_)
Lines(c) ==
    IF \A k \in DOMAIN c : c[k] # NL
    THEN <<>>
    ELSE LET k == CHOOSE k \in DOMAIN c :
                      c[k] = NL /\ \A j \in 1..(k - 1) : c[j] # NL
         IN  <<SubSeq(c, 1, k - 1)>> \o Lines(SubSeq(c, k + 1, Len(c)))

\* What follows the last newline of a text: a line that is not terminated.
RECURSIVE Unterminated(_)
Unterminated(c) ==
    IF \A k \in DOMAIN c : c[k] # NL
    THEN c
    ELSE LET k == CHOOSE k \in DOMAIN c :
                      c[k] = NL /\ \A j \in 1..(k - 1) : c[j] # NL
         IN  Unterminated(SubSeq(c, k + 1, Len(c)))

\* Every character a of a text replaced by b.
Replace(c, a, b) == [k \in DOMAIN c |-> IF c[k] = a THEN b ELSE c[k]]

Arrow == <<" ", "-", "-", ">", " ">>

\* The last call was a call of `call` that returned.
Returned(call) == ret.fn = call /\ ~ret.raised

\* The last call was an export in `format_type` that wrote its file whole.
Exported(format_type) ==
    /\ ret.fn = "export_transcription"
    /\ ret.format = format_type
    /\ ret.out # <<>>

\* The file the last call returned the path of.
Written == disk[ret.out]

\* C14: for a non-empty list of n segments the SRT writer writes, per segment
\* and in input order, a sequence-number line, a time line, a text line and
\* a blank line; the i-th input segment gets the number i, so the numbers
\* are 1, 2, ..., n whatever the segments hold.
C14_SrtNumbersInInputOrder ==
    (Returned("output_srt") /\ ret.segments # <<>>) =>
        LET n == Len(ret.segments)
            lines == Lines(Written)
        IN  /\ Len(lines) = 4 * n
            /\ Unterminated(Written) = <<>>
            /\ \A i \in 1..n :
                 /\ lines[4 * i - 3] = Decimal(i)
                 /\ lines[4 * i - 2] =
                        to_timestamp(ret.segments[i].t0, ",") \o Arrow
                            \o to_timestamp(ret.segments[i].t1, ",")
                 /\ lines[4 * i - 1] = ret.segments[i].text
                 /\ lines[4 * i] = <<>>
            /\ lines[1] = <<"1">>
            /\ n >= 2 => lines[5] = <<"2">>

C14_Witness ==
    /\ Returned("output_srt")
    /\ Len(ret.segments) = 2
    /\ ret.segments[1].t0 > ret.segments[2].t0
    /\ Lines(Written)[5] = <<"2">>

\* C15: for any segment list the i-th time line of the VTT file and the i-th
\* time line of the SRT file carry the same times: with the '.' of the VTT
\* line replaced by ',' the two lines are equal character for character.
C15_VttAndSrtTimesAgree ==
    /\ Returned("output_vtt") =>
          LET vtt == Lines(Written)
              srt == Lines(Concat(Writes("srt", ret.segments)))
          IN  \A i \in 1..Len(ret.segments) :
                  Replace(vtt[3 * i], ".", ",") = srt[4 * i - 2]
    /\ Returned("output_srt") =>
          LET srt == Lines(Written)
              vtt == Lines(Concat(Writes("vtt", ret.segments)))
          IN  \A i \in 1..Len(ret.segments) :
                  Replace(vtt[3 * i], ".", ",") = srt[4 * i - 2]

C15_Witness ==
    /\ Returned("output_vtt")
    /\ Len(ret.segments) = 2
    /\ ret.segments[2].t1 = 1000 * TicksPerHour
    /\ Lines(Written)[6] # Lines(Concat(Writes("srt", ret.segments)))[6]

\* C16: each writer appends its extension to the destination exactly when
\* the destination does not end with it (so resolving twice changes nothing
\* more), writes the file at the resolved path made absolute, and returns
\* that path.
C16_ExtensionAppendedOnce ==
    (ret.fn \in {"output_txt", "output_vtt", "output_srt", "output_csv"}
          /\ ~ret.raised) =>
        LET ext == Extension(ret.format)
            given == ret.output_file_path
        IN  /\ endswith(given, ext) => ret.out = Absolute(given)
            /\ ~endswith(given, ext) => ret.out = Absolute(given \o ext)
            /\ endswith(ret.out, ext)
            /\ ret.out[1] = "/"
            /\ Resolve(Resolve(given, ret.format), ret.format)
                   = Resolve(given, ret.format)
            /\ ret.out \in DOMAIN disk
            /\ Written = Concat(Writes(ret.format, ret.segments))

C16_Witness ==
    /\ Returned("output_csv")
    /\ ret.output_file_path = <<"a">> \o Extension("csv")
    /\ ret.out = Cwd \o <<"/", "a">> \o Extension("csv")
    /\ ret.existed

\* C17: the txt output holds one line per segment, in input order, each the
\* segment's text with leading and trailing blanks removed and each ended by
\* a newline, the last one too, with no timestamps; for the txt writer and
\* for the txt export of the GUI.
C17_TxtLinesTrimmedAndTerminated ==
    (Returned("output_txt") \/ Exported("txt")) =>
        /\ Lines(Written) = [i \in DOMAIN ret.segments |->
                                  strip(ret.segments[i].text)]
        /\ Unterminated(Written) = <<>>

\* C18: the CSV writer writes one row per segment, in input order and with
\* no header: `<10 * t0>, <10 * t1>, "<text>"`, the times as plain integers
\* of milliseconds, the text between quotes and not escaped, one row per
\* line, so as many lines as segments; the segment (100, 200, "hi") gives
\* the line `1000, 2000, "hi"`.
C18_CsvRows ==
    Returned("output_csv") =>
        LET lines == Lines(Written)
        IN  /\ Len(lines) = Len(ret.segments)
            /\ Unterminated(Written) = <<>>
            /\ \A i \in DOMAIN ret.segments :
                 LET seg == ret.segments[i] IN
                 /\ lines[i] = DecimalTimesTen(seg.t0) \o <<",", " ">>
                                  \o DecimalTimesTen(seg.t1)
                                  \o <<",", " ", "\"">> \o seg.text \o <<"\"">>
                 /\ seg = [t0 |-> 100, t1 |-> 200, text |-> Hi] =>
                        lines[i] = <<"1", "0", "0", "0", ",", " ", "2", "0", "0", "0", ",", " ", "\"", "h", "i", "\"">>

C18_Witness ==
    /\ Returned("output_csv")
    /\ Len(ret.segments) = 2
    /\ ret.segments[1].text = Hi
    /\ "\"" \in {ret.segments[2].text[k] : k \in DOMAIN ret.segments[2].text}
    /\ Len(Lines(Written)) = 2

\* C19: the VTT writer always writes the header line WEBVTT and a blank line,
\* for an empty list too, and then per segment, in input order, the line
\* `<start> --> <end>` with '.' stamps, the text line and a blank line, and
\* nothing else.
C19_VttHeaderThenCues ==
    Returned("output_vtt") =>
        LET lines == Lines(Written)
            n == Len(ret.segments)
        IN  /\ Len(lines) = 2 + 3 * n
            /\ Unterminated(Written) = <<>>
            /\ lines[1] = <<"W", "E", "B", "V", "T", "T">>
            /\ lines[2] = <<>>
            /\ \A i \in 1..n :
                 /\ lines[3 * i] =
                        to_timestamp(ret.segments[i].t0, ".") \o Arrow
                            \o to_timestamp(ret.segments[i].t1, ".")
                 /\ lines[3 * i + 1] = ret.segments[i].text
                 /\ lines[3 * i + 2] = <<>>

C19_Witness ==
    /\ Returned("output_vtt")
    /\ ret.segments = <<>>
    /\ Written = <<"W", "E", "B", "V", "T", "T", NL, NL>>

\* ------------------------------------------------ properties of export
\* The last call was an export that reached its try block and failed.
ExportFailed == ret.fn = "export_transcription" /\ ret.raised

\* The file.write calls an export makes before its rows, and per row.
HeaderWrites(format_type) == IF format_type = "vtt" THEN 1 ELSE 0

RowWrites(format_type) ==
    CASE format_type = "srt" -> 3
      [] format_type = "vtt" -> 2
      [] format_type = "csv" -> 1
      [] format_type = "txt" -> 1

\* The file a complete export of the first k segments of the last call
\* writes.
FirstRows(k) ==
    Concat(export(ret.format, SubSeq(ret.segments, 1, k), ret.file_path).writes)

\* After a failed export: the failure is in the status bar, the export can
\* be invoked again on the same segments, and the file, if it was opened,
\* holds what was written before the failure and nothing older.
ExportFailureState ==
    ExportFailed =>
        /\ app.status = Status("Error exporting to ", upper(ret.format))
        /\ app.export_enabled /\ app.copy_enabled
        /\ app.segments = ret.segments /\ app.segments # <<>>
        /\ CanCreate(ret.path)
        /\ ret.opened => ret.path \in DOMAIN disk
        /\ \A k \in 0..Len(ret.segments) :
             (/\ ret.opened
              /\ ret.format = "txt" => k = 0
              /\ ret.done = HeaderWrites(ret.format) + k * RowWrites(ret.format))
                 => disk[ret.path] = FirstRows(k)

\* A failing export step changes neither the segments nor what the export
\* and copy buttons allow, and without an open it changes no file.
ExportFailureStep ==
    (ret'.fn = "export_transcription" /\ ret'.raised) =>
        /\ app'.segments = app.segments
        /\ app'.export_enabled = app.export_enabled
        /\ app'.copy_enabled = app.copy_enabled
        /\ ~ret'.opened => disk' = disk

\* C20: a writer failure during an export leaves the application's segments
\* and the availability of export and copy unchanged, is reported in the
\* status bar and leaves the same export invocable again; the file is
\* opened with truncation, and after a failure that follows k rows it holds
\* exactly the first k rows.
C20_ExportFailureIsLocal == []ExportFailureState /\ [][ExportFailureStep]_vars

C20_Witness ==
    /\ ExportFailed
    /\ ret.again /\ ret.existed /\ ret.opened
    /\ ret.format = "srt"
    /\ Len(ret.segments) = 2
    /\ ret.done = 3
    /\ disk[ret.path] = Concat(srt_row(ret.segments[1], 1))
    /\ app.status.pre = "Error exporting to "

\* ------------------------------------------- properties of the callbacks
\* This step appends a call carrying signal `sig` of worker w to the queue.
Posted(w, sig) ==
    /\ Len(queue') = Len(queue) + 1
    /\ SubSeq(queue', 1, Len(queue)) = queue
    /\ queue'[Len(queue')][1] = w
    /\ queue'[Len(queue')][2] = sig

\* This step is a segment callback of w that raised the stop error.
AbortSignalled(w) ==
    /\ pc[w] = "transcribe"
    /\ exc'[w] = StopMessage
    /\ pc'[w] = "except_status"

SegmentCallbackStep ==
    \A w \in Workers :
        /\ AbortSignalled(w) => (~is_running[w] /\ queue' = queue /\ nseg' = nseg)
        /\ Posted(w, "segment") =>
              /\ pc[w] = "transcribe" /\ is_running[w]
              /\ queue'[Len(queue')][3] = Segment(w, nseg[w] + 1)
              /\ nseg'[w] = nseg[w] + 1
        /\ nseg'[w] = nseg[w] + 1 => Posted(w, "segment")
        /\ exc[w] = StopMessage => ~Posted(w, "segment")

\* C21: a segment callback that finds the flag cleared raises the stop error
\* into transcribe and emits no segment; one that finds it set emits the
\* segment; once a callback has raised the stop error the run emits no
\* further segment.
C21_CallbackChecksFlagFirst == [][SegmentCallbackStep]_vars

C21_Witness ==
    \E w \in Workers :
        /\ pc[w] = "except_status"
        /\ exc[w] = StopMessage
        /\ nseg[w] >= 1
        /\ ~is_running[w]

\* Worker w has been stopped in the middle of its run: only stop() clears
\* the flag between the first statement of run() and its finally clause.
StoppedInRun(w) ==
    /\ ~is_running[w]
    /\ pc[w] \notin {"none", "start", "finally", "done", "released"}

\* This step is a stop() that cleared the flag of w.
StopStep(w) == is_running[w] /\ ~is_running'[w] /\ pc[w] # "finally"

\* A stopped run goes on: transcribe may still report progress and may
\* return its segments.
StoppedRunGoesOn ==
    \A w \in Workers :
        (StoppedInRun(w) /\ pc[w] = "transcribe" /\ Collected) =>
            /\ ENABLED (TranscribeReturn(w) /\ pc'[w] = "emit_complete")
            /\ ncalls[w] < MaxCalls =>
                  ENABLED (progress_callback(w) /\ Posted(w, "progress"))

StopOnlySetsFlag ==
    \A w \in Workers :
        /\ StopStep(w) =>
              /\ queue' = queue /\ app' = app /\ termLog' = termLog
              /\ pc' = pc /\ exc' = exc /\ nseg' = nseg /\ ncalls' = ncalls
        /\ (StoppedInRun(w) /\ pc[w] = "emit_complete" /\ pc'[w] = "emit_result")
              => Posted(w, "status_update")
        /\ (StoppedInRun(w) /\ pc[w] = "emit_result" /\ pc'[w] = "finally")
              => /\ Posted(w, "result")
                 /\ queue'[Len(queue')][3] = SegmentList(w, nseg[w])

\* C22: stop() emits nothing and does not end the run; a stopped run may
\* still emit progress, and when transcribe makes no further segment
\* callback it returns and the run emits its result as an unstopped run
\* does.
C22_StopTakesEffectAtCallback == []StoppedRunGoesOn /\ [][StopOnlySetsFlag]_vars

C22_Witness ==
    \E w \in Workers :
        /\ pc[w] = "finally"
        /\ ~is_running[w]
        /\ nseg[w] >= 1
        /\ Names(termLog[w]) = <<"result">>

\* ------------------------------------------- properties of the consumer
\* The idle state of the window.
Idle(a) ==
    /\ a.transcribe_visible /\ a.transcribe_enabled
    /\ ~a.stop_visible
    /\ a.select_enabled
    /\ ~a.progress_visible
    /\ a.whisper_thread = 0

\* This step runs the oldest queued call, one for signal `sig`.
Processed(sig) ==
    /\ queue # <<>>
    /\ Head(queue)[2] = sig
    /\ queue' = Tail(queue)

\* This step is a start_transcription that started worker w.
StartStep(w) == pc[w] = "none" /\ pc'[w] = "start" /\ app'.whisper_thread = w

IdleAfterFinished ==
    /\ Processed("finished") => Idle(app')
    /\ Processed("error") => Idle(app')
    /\ (Idle(app) /\ ~Idle(app')) => \E w \in Workers : StartStep(w)

\* C23: once the consumer has run the slot of a run's finished signal, on
\* every way the run can end, the window is idle (Transcribe visible and
\* enabled, Stop hidden, file selection enabled, progress hidden, no worker
\* referenced), and it stays idle until start_transcription starts a run.
C23_IdleAfterFinished == [][IdleAfterFinished]_vars

C23_Witness ==
    \E w \in Workers :
        /\ Idle(app)
        /\ pc[w] = "done"
        /\ uncaught[w]
        /\ Names(slotLog[w]) = <<"on_transcription_finished">>

\* The call this step appended to the queue.
LastPosted == queue'[Len(queue')]

\* The order of the statements of run() up to the transcribe call, as the
\* steps of worker w show it.
StartOfRunStep(w) ==
    /\ pc'[w] = "emit_loading" /\ pc[w] # pc'[w] =>
          pc[w] = "start" /\ queue' = queue
    /\ pc'[w] = "load" /\ pc[w] # pc'[w] =>
          /\ pc[w] = "emit_loading"
          /\ Posted(w, "status_update")
          /\ LastPosted[3] = Status("Loading model: ", "...")
    /\ pc'[w] = "emit_loaded" /\ pc[w] # pc'[w] =>
          pc[w] = "load" /\ queue' = queue
    /\ pc'[w] = "transcribe" /\ pc[w] # pc'[w] =>
          /\ pc[w] = "emit_loaded"
          /\ Posted(w, "status_update")
          /\ LastPosted[3] = Status("Model loaded. Starting transcription...", "")
    /\ Posted(w, "segment") \/ Posted(w, "progress") => pc[w] = "transcribe"
    /\ \A sig \in {"status_update", "result", "error", "finished"} :
          Posted(w, sig) =>
              \/ pc[w] \in {"emit_loading", "emit_loaded", "emit_complete",
                             "emit_result"}
              \/ pc[w] \in {"except_status", "except_error", "finally"}
    /\ (Posted(w, "status_update") /\ pc[w] = "emit_loading") =>
          LastPosted[3] = Status("Loading model: ", "...")

\* C24: every run emits the loading status first, before it calls the model
\* load, and emits the transcribing status after a load that succeeded and
\* before any segment or progress of the run.
C24_StatusBeforeLoadAndSegments == [][\A w \in Workers : StartOfRunStep(w)]_vars

C24_Witness ==
    \E w \in Workers :
        /\ pc[w] = "transcribe"
        /\ Len(queue) = 4
        /\ \A i \in 1..4 : queue[i][1] = w
        /\ queue[1][3] = Status("Loading model: ", "...")
        /\ queue[2][3] = Status("Model loaded. Starting transcription...", "")
        /\ {queue[3][2], queue[4][2]} = {"segment", "progress"}

\* The workers between their start() and the emission of their finished
\* signal.
Executing ==
    {w \in Workers : pc[w] \notin {"none", "done", "released"}}

\* C25: at most one worker is between its start and its finished signal at
\* any time, whatever the order of the user's actions and of the queued
\* slot calls.
C25_OneWorkerExecuting == Cardinality(Executing) <= 1

\* Worker w has been started and the slot of its finished signal has not
\* run yet.
FinishedPending(w) ==
    /\ pc[w] \notin {"none", "released"}
    /\ ~HasName(slotLog[w], "on_transcription_finished")

\* The window shows a run of worker w.
RunningFor(w) ==
    /\ app.whisper_thread = w
    /\ app.stop_visible
    /\ ~app.transcribe_visible

\* C26: from the start of a worker until the consumer has processed its
\* finished signal the window is in the running state for that worker:
\* whisper_thread is that worker, Stop is visible and Transcribe is hidden.
C26_RunningUntilFinishedProcessed ==
    \A w \in Workers : FinishedPending(w) => RunningFor(w)

\* Worker w's run ended through the except clause and the consumer has run
\* every slot call of it.
FailureProcessed(w) ==
    /\ pc[w] = "done"
    /\ QueueOf(w) = <<>>
    /\ HasName(termLog[w], "error")
    /\ HasName(slotLog[w], "on_transcription_finished")

Success == Status("Transcription finished successfully!", "")

\* C27: once the consumer has processed a run that failed or was stopped,
\* the status text is not the success message, whether or not segments of
\* the run were shown before the failure.
C27_FailureNotShownAsSuccess ==
    \A w \in Workers : FailureProcessed(w) => app.status # Success

\* The most recently started worker (0 when none was started).
Latest == Cardinality({w \in Workers : started(w)})

\* What export and copy work on: when either is enabled, the non-empty list
\* the latest run's result signal carried; nothing after a run that ended
\* through the except clause.
ExportableIsLatestResult ==
    /\ (app.export_enabled \/ app.copy_enabled) =>
          /\ app.export_enabled /\ app.copy_enabled
          /\ app.segments # <<>>
          /\ Latest \in Workers
          /\ app.segments = SegmentList(Latest, Len(app.segments))
    /\ \A w \in Workers :
          (FailureProcessed(w) /\ w = Latest) =>
              /\ app.segments = <<>>
              /\ ~app.export_enabled /\ ~app.copy_enabled

SegmentsReplacedStep ==
    /\ app'.segments # app.segments =>
          \/ Processed("result") /\ app'.segments = Head(queue)[3]
          \/ (\E w \in Workers : StartStep(w)) /\ app'.segments = <<>>
    /\ (\E w \in Workers : StartStep(w)) =>
          /\ app'.segments = <<>>
          /\ ~app'.export_enabled /\ ~app'.copy_enabled
    /\ Processed("result") =>
          /\ app'.segments = Head(queue)[3]
          /\ Head(queue)[1] = Latest

\* C28: the stored segment list is replaced only by a result signal; when
\* export or copy is enabled it is non-empty and is the list the result
\* signal of the most recently started run carried; starting a run empties
\* it and disables export and copy, and a run that failed or was stopped
\* leaves it empty and them disabled, rows in the table or not.
C28_ExportableIsLatestResult ==
    []ExportableIsLatestResult /\ [][SegmentsReplacedStep]_vars

\* C29: every started run emits its finished signal in the end, given that
\* the calls into the model return or raise; no step of the worker waits
\* for the GUI thread or for the flag.
C29_StartedRunFinishes ==
    \A w \in WorkerIds("none") :
        (pc[w] = "start") ~> (pc[w] \in {"done", "released"})

C29_Witness ==
    \E w \in Workers :
        /\ pc[w] = "done"
        /\ HasName(termLog[w], "finished")
        /\ Len(QueueOf(w)) >= 4
        /\ slotLog[w] = <<>>
        /\ app.status = Status("Starting transcription...", "")

\* --------------------------------------------- properties of the table
\* The fields <<hours, minutes, seconds, milliseconds>> a stamp of the form
\* H..H:MM:SS<sep>mmm denotes; a grouping comma in the hours is skipped.
RECURSIVE Number(_)
Number(chars) ==
    IF chars = <<>> THEN 0
    ELSE LET c == chars[Len(chars)]
             front == SubSeq(chars, 1, Len(chars) - 1)
         IN  IF c = ","
             THEN Number(front)
             ELSE 10 * Number(front)
                    + (CHOOSE d \in 0..9 : Digit(d) = c)

StampFields(chars) ==
    LET n == Len(chars)
    IN  <<Number(SubSeq(chars, 1, n - 10)),
          Number(SubSeq(chars, n - 8, n - 7)),
          Number(SubSeq(chars, n - 5, n - 4)),
          Number(SubSeq(chars, n - 2, n))>>

\* C30: the start and end shown in a row of the results table denote the
\* same instants, to the millisecond, as the stamps to_timestamp gives the
\* SRT and VTT writers for the same segment.
C30_TableAgreesWithWriters ==
    ret.fn = "on_new_segment" =>
        /\ StampFields(ret.row[1]) = StampFields(to_timestamp(ret.segment.t0, "."))
        /\ StampFields(ret.row[2]) = StampFields(to_timestamp(ret.segment.t1, ","))

\* Block k's body ends in this step, by returning or by raising.
ExitStep(k) ==
    /\ k \in DOMAIN blocks
    /\ blocks[k].pc = "body"
    /\ blocks'[k].pc = "exited"

\* After the exit of block b, stderr is what it was before the entry: the
\* descriptor refers to the same open file and sys.stderr is the same stream.
StderrRestored(b) ==
    /\ sys_stderr' = b.entry_stderr
    /\ b.original_fd # NoFd =>
           /\ b.original_fd \in DOMAIN fd'
           /\ fd'[b.original_fd] = b.entry_fd[b.original_fd]

\* After the exit of block b, the stream the helper opened is closed, with
\* its descriptor; a stream of the caller is as open as it was.
StreamSettled(b) ==
    /\ b.to \in {"None", "path"} =>
           /\ streams'[b.stream].closed
           /\ streams'[b.stream].descriptor \notin DOMAIN fd'
    /\ b.to \in {"sys.stdout", "StringIO", "writer"} =>
           /\ streams'[b.stream] = b.entry_streams[b.stream]
           /\ ~streams'[b.stream].closed
           /\ streams'[b.stream].fileno = "fd" =>
                  /\ streams'[b.stream].descriptor \in DOMAIN fd'
                  /\ fd'[streams'[b.stream].descriptor]
                         = b.entry_fd[streams'[b.stream].descriptor]

\* to=False: neither the entry nor the exit touches the process.
FalseDoesNothing ==
    \A k \in DOMAIN blocks' :
        (blocks'[k].to = "False" /\ (k \notin DOMAIN blocks \/ ExitStep(k)))
            => UNCHANGED <<fd, streams, sys_stderr>>

\* C31: when the body of a with redirect_stderr(...) block ends, by returning
\* or by raising, stderr refers to what it referred to before the entry, the
\* saved duplicate descriptor is closed, a stream the helper opened (to=None
\* or a path) is closed and a stream of the caller is left open; with
\* to=False nothing is redirected, opened or closed.
C31_StderrRestoredOnExit ==
    [][/\ \A k \in DOMAIN blocks :
             ExitStep(k) =>
                 /\ StderrRestored(blocks[k])
                 /\ blocks[k].saved_fd # NoFd =>
                        blocks[k].saved_fd \notin DOMAIN fd'
                 /\ StreamSettled(blocks[k])
       /\ FalseDoesNothing]_vars

\* A block on a path, entered inside a block on sys.stdout, has been left by
\* raising and the outer block then by returning; both had redirected the
\* descriptor.
C31_Witness ==
    /\ Len(blocks) = 2
    /\ blocks[1].pc = "exited" /\ blocks[1].to = "sys.stdout"
    /\ blocks[1].route = "fd" /\ ~blocks[1].raised
    /\ blocks[2].pc = "exited" /\ blocks[2].to = "path"
    /\ blocks[2].route = "fd" /\ blocks[2].raised
    /\ blocks[2].entry_fd[2] = File("stdout", 0)

\* Every model file in the cache is the whole file the server holds.
CacheComplete ==
    \A model_name \in AVAILABLE_MODELS, download_dir \in DownloadDirs :
        LET path == model_path(model_name, download_dir) IN
        path \in DOMAIN disk => disk[path] = Content(model_name)

\* A download_model call in which something went wrong after the request
\* was answered leaves no destination file and raises what went wrong.
FailedDownloadRemoved ==
    (ret'.fn = "download_model" /\ ret'.requested
         /\ ret'.failure.at \in {"open", "chunk"}) =>
        /\ ret'.path \notin DOMAIN disk'
        /\ ret'.propagated = ret'.failure.error

\* A download_model call for a file already there requests nothing, and one
\* for an unknown name returns no path and creates nothing.
NoNeedlessDownload ==
    /\ (ret'.fn = "download_model" /\ ret'.existed) =>
           /\ ~ret'.requested
           /\ disk' = disk
           /\ ret'.out = ret'.path
    /\ (ret'.fn = "download_model"
            /\ ret'.model_name \notin AVAILABLE_MODELS) =>
           /\ ret'.out = <<>>
           /\ ~ret'.makedirs
           /\ disk' = disk

\* C32: download_model never leaves a partial model file in the cache: after
\* a failure that follows the start of the download the destination file
\* does not exist and the original error is propagated, so no later call
\* finds a truncated file there; a file already there is not downloaded
\* again; an unknown model name returns no path and creates nothing.
C32_NoPartialModelFile ==
    []CacheComplete /\ [][FailedDownloadRemoved /\ NoNeedlessDownload]_vars


=============================================================================
